---- MODULE Spec2Model ----
(***************************************************************************)
(* Black_Hole_1D: reversible chunk-reversal preprocessing in front of an   *)
(* external entropy coder (paq / zstd), the container that carries the     *)
(* plan, and the randomized search that keeps the smallest blob.           *)
(*                                                                         *)
(* Byte strings are sequences of integers 0..255.  A function of the       *)
(* program that may raise returns a record [err, val]: err = "none" and    *)
(* val the result, or err the name of the exception raised.                *)
(***************************************************************************)
EXTENDS Integers, Sequences, FiniteSets, TLC

\* ------------------------------------------------------------------ bounds
\* Longest payload of the transform / container specification.
MaxLen == 3
\* Largest chunk size drawn there.
MaxChunk == 3
\* Longest list of positions drawn there (but for the two long lists).
MaxPositions == 2
\* Longest input file of a search.
MaxFile == 2
\* Largest iteration budget of a search.
MaxIter == 2
\* Longest output of the entropy coder, in bytes.
MaxBlob == 3
\* Largest number of attempts of run_compression.
MaxAttempts == 2
\* Latest reading of the clock, and the longest time budget.
MaxTime == 2
\* Largest budget of consecutive passes without improvement.
MaxNoImprove == 2

\* ------------------------------------------------- python / struct helpers
Ok(v) == [err |-> "none", val |-> v]
Raise(e) == [err |-> e, val |-> <<>>]

Min(a, b) == IF a < b THEN a ELSE b
Max(a, b) == IF a > b THEN a ELSE b

\* data[a:b] for 0 <= a, 0 <= b (python clamps both ends to len(data)).
Slice(data, a, b) == SubSeq(data, a + 1, Min(b, Len(data)))

\* data[a:]
SliceFrom(data, a) == SubSeq(data, a + 1, Len(data))

\* data[::-1]
ReverseSeq(s) == [k \in 1..Len(s) |-> s[Len(s) + 1 - k]]

\* b"".join(chunks)
RECURSIVE Join(_)
Join(chunks) == IF chunks = <<>> THEN <<>> ELSE Head(chunks) \o Join(Tail(chunks))

\* Padding with the byte 1 in the place of the byte 0.
Zeros_Ones(n) == [k \in 1..n |-> 1]

\* b'\x00' * n
Zeros(n) == [k \in 1..n |-> 0]

\* len(range(0, n, step)) for step >= 1
CeilDiv(n, step) == (n + step - 1) \div step

\* a ^ b on 8-bit values
RECURSIVE XorBits(_, _, _)
XorBits(a, b, bits) ==
    IF bits = 0 THEN 0
    ELSE (((a % 2) + (b % 2)) % 2) + 2 * XorBits(a \div 2, b \div 2, bits - 1)

Xor8(a, b) == XorBits(a, b, 8)

\* 256 ** k for k in 0..3 (the powers a 32-bit field needs)
Pow256(k) == CASE k = 0 -> 1 [] k = 1 -> 256 [] k = 2 -> 65536 [] OTHER -> 16777216

\* The bytes of the field written little-endian, the lowest byte first.
BigEndian_Little(n, w) ==
    [k \in 1..w |-> IF k - 1 >= 4 THEN 0 ELSE (n \div Pow256(k - 1)) % 256]

\* The big-endian bytes struct.pack writes for n in a field of w bytes; the
\* values of the model stay below 2**31, so the bytes above the low four are 0.
BigEndian(n, w) ==
    [k \in 1..w |-> IF w - k >= 4 THEN 0 ELSE (n \div Pow256(w - k)) % 256]

\* struct.pack(">B", n), ">H", ">I", ">Q": struct.error when n does not fit.
PackB(n) == IF n < 0 \/ n > 255 THEN Raise("struct.error") ELSE Ok(BigEndian(n, 1))
PackH(n) == IF n < 0 \/ n > 65535 THEN Raise("struct.error") ELSE Ok(BigEndian(n, 2))
PackI(n) == IF n < 0 THEN Raise("struct.error") ELSE Ok(BigEndian(n, 4))
PackQ(n) == IF n < 0 THEN Raise("struct.error") ELSE Ok(BigEndian(n, 8))

\* The 4-byte big-endian fields of a list of values, one after the other.
PackedFields(values) ==
    [i \in 1..(4 * Len(values)) |->
        BigEndian(values[((i - 1) \div 4) + 1], 4)[((i - 1) % 4) + 1]]

\* struct.pack(f">{len(positions)}I", *positions)
PackPositions(positions) ==
    IF \E k \in DOMAIN positions : positions[k] < 0 THEN Raise("struct.error")
    ELSE Ok(PackedFields(positions))

\* The unsigned big-endian integer held by a byte string.
RECURSIVE FromBigEndian(_)
FromBigEndian(bytes) ==
    IF bytes = <<>> THEN 0
    ELSE FromBigEndian(SubSeq(bytes, 1, Len(bytes) - 1)) * 256 + bytes[Len(bytes)]

\* struct.unpack of one field of w bytes: struct.error unless exactly w bytes.
Unpack(bytes, w) ==
    IF Len(bytes) # w THEN Raise("struct.error") ELSE Ok(FromBigEndian(bytes))

\* struct.unpack of the positions with no test of the length of the bytes.
UnpackPositions_Lenient(bytes, n) ==
    Ok([k \in 1..n |-> FromBigEndian(Slice(bytes, 4 * k - 4, 4 * k))])

\* struct.unpack(f">{n}I", bytes): a tuple of n integers.
UnpackPositions(bytes, n) ==
    IF Len(bytes) # 4 * n THEN Raise("struct.error")
    ELSE Ok([k \in 1..n |-> FromBigEndian(SubSeq(bytes, 4 * k - 3, 4 * k))])

\* ------------------------------------------------------- TransformEngine
\* [data[i:i + chunk_size] for i in range(0, len(data), chunk_size)]
ChunkList(data, chunk_size) ==
    [k \in 1..CeilDiv(Len(data), chunk_size) |->
        Slice(data, (k - 1) * chunk_size, k * chunk_size)]

\* The loop over the positions with a position past the last chunk taken as
\* the last chunk.
ReverseAt_Clamped(chunked_data, positions) ==
    [k \in 1..Len(chunked_data) |->
        IF Cardinality({j \in DOMAIN positions :
                           Min(positions[j], Len(chunked_data) - 1) = k - 1}) % 2 = 1
            THEN ReverseSeq(chunked_data[k])
            ELSE chunked_data[k]]

\* for pos in positions: if 0 <= pos < len(chunked_data): reverse that chunk.
\* The loop reverses chunk k once per occurrence of k in positions (a position
\* outside the list is skipped), so the chunk ends reversed exactly when it
\* occurs an odd number of times.
ReverseAt(chunked_data, positions) ==
    [k \in 1..Len(chunked_data) |->
        IF Cardinality({j \in DOMAIN positions : positions[j] = k - 1}) % 2 = 1
            THEN ReverseSeq(chunked_data[k])
            ELSE chunked_data[k]]

\* Black_Hole_94.reverse_chunks: no padding; range() raises on a zero step.
reverse_chunks_94(data, chunk_size, positions) ==
    IF chunk_size = 0 THEN Raise("ValueError")
    ELSE Ok(Join(ReverseAt(ChunkList(data, chunk_size), positions)))

\* reverse_chunks_at_positions with padding_needed computed without the outer
\* modulo: a whole chunk of padding after a last chunk that is full.
reverse_chunks_at_positions_71_FullPad(input_data, chunk_size, positions) ==
    IF chunk_size = 0 THEN Raise("ValueError")
    ELSE LET chunked_data == ChunkList(input_data, chunk_size)
         IN IF chunked_data = <<>> THEN Raise("IndexError")
            ELSE LET last == chunked_data[Len(chunked_data)]
                     padding_needed == chunk_size - (Len(last) % chunk_size)
                     padded == [chunked_data EXCEPT
                                   ![Len(chunked_data)] = last \o Zeros(padding_needed)]
                 IN Ok(Join(ReverseAt(padded, positions)))

\* Black_Hole_71.reverse_chunks_at_positions: the last chunk is zero-padded to
\* chunk_size before the reversals; chunked_data[-1] raises on an empty list.
reverse_chunks_at_positions_71(input_data, chunk_size, positions) ==
    IF chunk_size = 0 THEN Raise("ValueError")
    ELSE LET chunked_data == ChunkList(input_data, chunk_size)
         IN IF chunked_data = <<>> THEN Raise("IndexError")
            ELSE LET last == chunked_data[Len(chunked_data)]
                     padding_needed ==
                         (chunk_size - (Len(last) % chunk_size)) % chunk_size
                     padded == [chunked_data EXCEPT
                                   ![Len(chunked_data)] = last \o Zeros(padding_needed)]
                 IN Ok(Join(ReverseAt(padded, positions)))

\* Black_Hole_82.reverse_chunks_at_positions: the listed chunks reversed, no
\* padding; range() raises on a zero step.
reverse_chunks_at_positions_82(input_data, chunk_size, positions) ==
    IF chunk_size = 0 THEN Raise("ValueError")
    ELSE Ok(Join(ReverseAt(ChunkList(input_data, chunk_size), positions)))

\* A slice index as python reads it: counted from the end when negative,
\* clamped to 0 .. n.
PyIndex(i, n) == IF i < 0 THEN Max(i + n, 0) ELSE Min(i, n)

\* reversed_data[start:] = reversed_data[start:][::-1], the end left out.
ReverseSlice_ToEnd(bytes, start, end) ==
    LET a == PyIndex(start, Len(bytes))
    IN SubSeq(bytes, 1, a) \o ReverseSeq(SubSeq(bytes, a + 1, Len(bytes)))

\* reversed_data[start:end] = reversed_data[start:end][::-1]
ReverseSlice(bytes, start, end) ==
    LET a == PyIndex(start, Len(bytes))
        b == PyIndex(end, Len(bytes))
    IN IF a >= b THEN bytes
       ELSE SubSeq(bytes, 1, a) \o ReverseSeq(SubSeq(bytes, a + 1, b))
                \o SubSeq(bytes, b + 1, Len(bytes))

\* The loop of Black_Hole_90.reverse_chunks over the positions.
RECURSIVE reverse_chunks_90_loop(_, _, _)
reverse_chunks_90_loop(reversed_data, size, pos) ==
    IF pos = <<>> THEN reversed_data
    ELSE reverse_chunks_90_loop(
             ReverseSlice(reversed_data, Head(pos) * size,
                          Min((Head(pos) + 1) * size, Len(reversed_data))),
             size, Tail(pos))

\* Black_Hole_90.reverse_chunks: the bytes of every listed chunk reversed in
\* place in a bytearray; no padding, no test of the chunk size or the
\* positions, no exception.
reverse_chunks_90(bytes, size, pos) == Ok(reverse_chunks_90_loop(bytes, size, pos))

\* apply_calculus with + in the place of ^.
apply_calculus_Add(data, calculus_value) ==
    [k \in 1..Len(data) |-> (data[k] + (calculus_value % 256)) % 256]

\* Black_Hole_94.apply_calculus: every byte XOR (calculus_value & 0xFF).
apply_calculus(data, calculus_value) ==
    [k \in 1..Len(data) |-> Xor8(data[k], calculus_value % 256)]

\* --------------------------------------------------------- ContainerCodec
\* The configured maximum number of positions of a plan.
MAX_POSITIONS == 64

\* First position value that Black_Hole_1.5.4 refuses to pack (2**28).
PositionLimit154 == 268435456

\* The loop of Black_Hole_1.5.4.compress_with_zstd over the positions:
\* ValueError for a position outside 0 .. 2**28 - 1, else its 4 bytes.
PackPositions154(positions) ==
    IF \E k \in DOMAIN positions :
           positions[k] < 0 \/ positions[k] >= PositionLimit154
    THEN Raise("ValueError")
    ELSE Ok(PackedFields(positions))

\* Mutant of compress_with_zstd_154: the position count written in 4 bytes
\* (the header of Black_Hole_64) while the decoder reads 2.
compress_with_zstd_154_Count4(reversed_data, chunk_size, positions, original_size) ==
    IF PackPositions154(positions).err # "none" THEN PackPositions154(positions)
    ELSE Ok(BigEndian(original_size, 8) \o BigEndian(chunk_size, 4)
            \o BigEndian(Len(positions), 4) \o PackedFields(positions)
            \o reversed_data)

\* Black_Hole_1.5.4.compress_with_zstd: the bytes handed to the coder,
\* originalSize(8) | chunkSize(4) | positionCount(2) | positions(4 each) | data.
compress_with_zstd_154(reversed_data, chunk_size, positions, original_size) ==
    LET q == PackQ(original_size)
        c == PackI(chunk_size)
        h == PackH(Len(positions))
        ps == PackPositions154(positions)
    IN IF q.err # "none" THEN q
       ELSE IF c.err # "none" THEN c
       ELSE IF h.err # "none" THEN h
       ELSE IF ps.err # "none" THEN ps
       ELSE Ok(q.val \o c.val \o h.val \o ps.val \o reversed_data)

\* What a decoder returns: the header fields, the payload as stored and the
\* payload restored (chunks reversed back, truncated to original_size).
Decoded(original_size, chunk_size, positions, stored, restored) ==
    [err |-> "none",
     val |-> [original_size |-> original_size, chunk_size |-> chunk_size,
              positions |-> positions, stored |-> stored, restored |-> restored]]

\* Black_Hole_1.5.4.decompress_and_restore_zstd on the coder's output: the
\* chunks are cut as len(data) // chunk_size whole chunks (a shorter tail is
\* dropped; a zero chunk_size raises ZeroDivisionError).
decompress_and_restore_zstd_154(decompressed_data) ==
    LET q == Unpack(Slice(decompressed_data, 0, 8), 8)
        c == Unpack(Slice(decompressed_data, 8, 12), 4)
        h == Unpack(Slice(decompressed_data, 12, 14), 2)
    IN IF q.err # "none" THEN q
       ELSE IF c.err # "none" THEN c
       ELSE IF h.err # "none" THEN h
       ELSE LET num_positions == h.val
                ps == UnpackPositions(
                          Slice(decompressed_data, 14, 14 + num_positions * 4),
                          num_positions)
                stored == SliceFrom(decompressed_data, 14 + num_positions * 4)
            IN IF ps.err # "none" THEN ps
               ELSE IF c.val = 0 THEN Raise("ZeroDivisionError")
               ELSE LET total_chunks == Len(stored) \div c.val
                        chunked_data ==
                            [k \in 1..total_chunks |->
                                Slice(stored, (k - 1) * c.val, k * c.val)]
                    IN Decoded(q.val, c.val, ps.val, stored,
                               Slice(Join(ReverseAt(chunked_data, ps.val)), 0, q.val))

\* Black_Hole_94.compress_data: the bytes handed to paq.compress,
\* originalSize(4) | chunkSize(4) | calculusValue(4) | positionCount(2) |
\* positions(4 each) | data; ValueError above 65535 positions.
compress_data_94(data, chunk_size, positions, original_size, calculus_value) ==
    LET o == PackI(original_size)
        c == PackI(chunk_size)
        v == PackI(calculus_value)
        num_positions == Len(positions)
        ps == PackPositions(positions)
    IN IF o.err # "none" THEN o
       ELSE IF c.err # "none" THEN c
       ELSE IF v.err # "none" THEN v
       ELSE IF num_positions > 65535 THEN Raise("ValueError")
       ELSE IF ps.err # "none" THEN ps
       ELSE Ok(o.val \o c.val \o v.val \o BigEndian(num_positions, 2) \o ps.val \o data)

\* Black_Hole_94.decompress_data on the coder's output.  Its except clause
\* names zlib.error, and zlib is not imported: whatever the try block raises
\* leaves the function as a NameError.
decompress_data_94(decompressed_data) ==
    LET m == IF Len(Slice(decompressed_data, 0, 12)) # 12 THEN Raise("NameError")
             ELSE Ok(<<FromBigEndian(Slice(decompressed_data, 0, 4)),
                       FromBigEndian(Slice(decompressed_data, 4, 8)),
                       FromBigEndian(Slice(decompressed_data, 8, 12))>>)
        h == Unpack(Slice(decompressed_data, 12, 14), 2)
    IN IF m.err # "none" THEN m
       ELSE IF h.err # "none" THEN Raise("NameError")
       ELSE LET original_size == m.val[1]
                chunk_size == m.val[2]
                calculus_value == m.val[3]
                num_positions == h.val
                positions_end == 14 + num_positions * 4
                ps == UnpackPositions(Slice(decompressed_data, 14, positions_end),
                                      num_positions)
                stored == SliceFrom(decompressed_data, positions_end)
            IN IF ps.err # "none" THEN Raise("NameError")
               ELSE LET r == reverse_chunks_94(stored, chunk_size, ps.val)
                    IN IF r.err # "none" THEN Raise("NameError")
                       ELSE Decoded(original_size, chunk_size, ps.val, stored,
                                    Slice(apply_calculus(r.val, calculus_value),
                                          0, original_size))

\* Black_Hole_86.decompress_data on the coder's output: struct.error leaves
\* the function as an Exception; the ValueError of reverse_chunks on a zero
\* chunk size is not caught.
decompress_data_86(decompressed_data) ==
    IF Len(Slice(decompressed_data, 0, 9)) # 9 THEN Raise("Exception")
    ELSE LET original == FromBigEndian(Slice(decompressed_data, 0, 4))
             size == FromBigEndian(Slice(decompressed_data, 4, 8))
             num_positions == FromBigEndian(Slice(decompressed_data, 8, 9))
             ps == UnpackPositions(
                       Slice(decompressed_data, 9, 9 + num_positions * 4),
                       num_positions)
             stored == SliceFrom(decompressed_data, 9 + num_positions * 4)
         IN IF ps.err # "none" THEN Raise("Exception")
            ELSE LET r == reverse_chunks_94(stored, size, ps.val)
                 IN IF r.err # "none" THEN r
                    ELSE Decoded(original, size, ps.val, stored,
                                 Slice(r.val, 0, original))

\* Black_Hole_64.decompress_and_restore_paq.  header_ok: the first three bytes
\* of the compressed file are 00 63 00; when they are not, the function
\* prints an error and returns None ("bad magic" here).  Then the container:
\* originalSize(8) | chunkSize(4) | positionCount(4) | positions | data, the
\* data cut into len // chunk_size whole chunks.
decompress_and_restore_paq_64(header_ok, decompressed_data) ==
    IF ~header_ok THEN Raise("bad magic")
    ELSE LET q == Unpack(Slice(decompressed_data, 0, 8), 8)
             c == Unpack(Slice(decompressed_data, 8, 12), 4)
             h == Unpack(Slice(decompressed_data, 12, 16), 4)
         IN IF q.err # "none" THEN q
            ELSE IF c.err # "none" THEN c
            ELSE IF h.err # "none" THEN h
            ELSE LET num_positions == h.val
                     ps == UnpackPositions(
                               Slice(decompressed_data, 16, 16 + num_positions * 4),
                               num_positions)
                     stored == SliceFrom(decompressed_data, 16 + num_positions * 4)
                 IN IF ps.err # "none" THEN ps
                    ELSE IF c.val = 0 THEN Raise("ZeroDivisionError")
                    ELSE LET total_chunks == Len(stored) \div c.val
                             chunked_data ==
                                 [k \in 1..total_chunks |->
                                     Slice(stored, (k - 1) * c.val, k * c.val)]
                         IN Decoded(q.val, c.val, ps.val, stored,
                                    Slice(Join(ReverseAt(chunked_data, ps.val)),
                                          0, q.val))

\* ---- Black_Hole_1.5.2
\* reverse_chunks_at_positions with the last chunk left unpadded.
reverse_chunks_at_positions_152_NoPad(bytes, size, pos) ==
    IF size = 0 THEN Raise("ValueError")
    ELSE IF ChunkList(bytes, size) = <<>> THEN Raise("IndexError")
    ELSE Ok(Join(ReverseAt(ChunkList(bytes, size), pos)))

\* Black_Hole_1.5.2.reverse_chunks_at_positions: the last chunk zero-padded
\* to chunk_size when it is shorter, then the listed chunks reversed;
\* chunked_data[-1] raises on an empty file.
reverse_chunks_at_positions_152(bytes, size, pos) ==
    IF size = 0 THEN Raise("ValueError")
    ELSE LET chunked_data == ChunkList(bytes, size)
         IN IF chunked_data = <<>> THEN Raise("IndexError")
            ELSE LET last == chunked_data[Len(chunked_data)]
                     padded == [chunked_data EXCEPT ![Len(chunked_data)] =
                                    last \o Zeros(size - Len(last))]
                 IN Ok(Join(ReverseAt(padded, pos)))

\* struct.pack(f">{len(positions)}H", *positions)
PackPositionsH(pos) ==
    IF \E k \in DOMAIN pos : pos[k] < 0 \/ pos[k] > 65535
        THEN Raise("struct.error")
    ELSE Ok([i \in 1..(2 * Len(pos)) |->
                BigEndian(pos[((i - 1) \div 2) + 1], 2)[((i - 1) % 2) + 1]])

\* struct.unpack(f">{n}H", bytes)
UnpackPositionsH(bytes, n) ==
    IF Len(bytes) # 2 * n THEN Raise("struct.error")
    ELSE Ok([k \in 1..n |-> FromBigEndian(SubSeq(bytes, 2 * k - 1, 2 * k))])

\* Black_Hole_1.5.2.compress_with_zstd: the bytes handed to the coder,
\* originalSize(8) | chunkSize(2) | positionCount(2) | positions(2 each) | data.
compress_with_zstd_152(reversed_data, size, pos, file_size) ==
    LET q == PackQ(file_size)
        c == PackH(size)
        h == PackH(Len(pos))
        ps == PackPositionsH(pos)
    IN IF q.err # "none" THEN q
       ELSE IF c.err # "none" THEN c
       ELSE IF h.err # "none" THEN h
       ELSE IF ps.err # "none" THEN ps
       ELSE Ok(q.val \o c.val \o h.val \o ps.val \o reversed_data)

\* Black_Hole_1.5.2.decompress_and_restore on the coder's output: the data
\* cut into len // chunk_size whole chunks, the listed chunks reversed, the
\* result trimmed to original_size.
decompress_and_restore_152(decompressed_data) ==
    LET q == Unpack(Slice(decompressed_data, 0, 8), 8)
        c == Unpack(Slice(decompressed_data, 8, 10), 2)
        h == Unpack(Slice(decompressed_data, 10, 12), 2)
    IN IF q.err # "none" THEN q
       ELSE IF c.err # "none" THEN c
       ELSE IF h.err # "none" THEN h
       ELSE LET num_positions == h.val
                ps == UnpackPositionsH(
                          Slice(decompressed_data, 12, 12 + num_positions * 2),
                          num_positions)
                stored == SliceFrom(decompressed_data, 12 + num_positions * 2)
            IN IF ps.err # "none" THEN ps
               ELSE IF c.val = 0 THEN Raise("ZeroDivisionError")
               ELSE LET total_chunks == Len(stored) \div c.val
                        chunked_data ==
                            [k \in 1..total_chunks |->
                                Slice(stored, (k - 1) * c.val, k * c.val)]
                    IN Decoded(q.val, c.val, ps.val, stored,
                               Slice(Join(ReverseAt(chunked_data, ps.val)), 0, q.val))

\* ---- Black_Hole_71
\* Black_Hole_71.decompress_and_restore_paq on the coder's output:
\* originalSize(4) | chunkSize(4) | positionCount(4) | positions | data, the
\* data given to reverse_chunks_at_positions again and trimmed.  struct.error
\* is caught and printed (no file is written); the exceptions of
\* reverse_chunks_at_positions are not caught.
decompress_and_restore_paq_71(decompressed_data) ==
    LET o == Unpack(Slice(decompressed_data, 0, 4), 4)
        c == Unpack(Slice(decompressed_data, 4, 8), 4)
        h == Unpack(Slice(decompressed_data, 8, 12), 4)
    IN IF o.err # "none" THEN o
       ELSE IF c.err # "none" THEN c
       ELSE IF h.err # "none" THEN h
       ELSE LET num_positions == h.val
                ps == UnpackPositions(
                          Slice(decompressed_data, 12, 12 + num_positions * 4),
                          num_positions)
                stored == SliceFrom(decompressed_data, 12 + num_positions * 4)
            IN IF ps.err # "none" THEN ps
               ELSE LET r == reverse_chunks_at_positions_71(stored, c.val, ps.val)
                    IN IF r.err # "none" THEN r
                       ELSE Decoded(o.val, c.val, ps.val, stored,
                                    Slice(r.val, 0, o.val))

\* ---- Black_Hole_1.5.1
\* The chunk indices 0 .. num_chunks - 1.
FirstChunks(num_chunks) == [k \in 1..num_chunks |-> k - 1]

\* Black_Hole_1.5.1.reverse_and_save: the first num_chunks chunks reversed,
\* no padding.
reverse_and_save_151(bytes, size, num_chunks) ==
    IF size = 0 THEN Raise("ValueError")
    ELSE Ok(Join(ReverseAt(ChunkList(bytes, size), FirstChunks(num_chunks))))

\* Black_Hole_1.5.1.compress_reversed_with_zstd: the bytes handed to the
\* coder, num_chunks(2) | data.  The chunk size is not stored.
compress_reversed_with_zstd_151(reversed_data, size, num_chunks) ==
    LET h == PackH(num_chunks)
    IN IF h.err # "none" THEN h ELSE Ok(h.val \o reversed_data)

\* Black_Hole_1.5.1.decompress_and_restore_with_zstd on the coder's output:
\* num_chunks is the low 10 bits of the stored value, the chunk size is
\* taken to be len(reversed_data) // num_chunks, and nothing is trimmed.
decompress_and_restore_with_zstd_151(decompressed_data) ==
    LET h == Unpack(Slice(decompressed_data, 0, 2), 2)
    IN IF h.err # "none" THEN h
       ELSE LET num_chunks == h.val % 1024
                reversed_data == SliceFrom(decompressed_data, 2)
            IN IF num_chunks = 0 THEN Raise("ZeroDivisionError")
               ELSE LET size == Len(reversed_data) \div num_chunks
                    IN IF size = 0 THEN Raise("ValueError")
                       ELSE LET restored_data ==
                                    Join(ReverseAt(ChunkList(reversed_data, size),
                                                   FirstChunks(num_chunks)))
                            IN Decoded(Len(restored_data), size,
                                       FirstChunks(num_chunks), reversed_data,
                                       restored_data)

\* ---- Black_Hole_78
\* Black_Hole_78.decompress_and_restore_paq on the coder's output:
\* originalSize(4) | chunkSize(4) | positionCount(1) | positions(4 each) |
\* strategy(1) | data.  The strategy is read and not used: the data is given
\* to reverse_chunks_at_positions and trimmed to originalSize whatever it is.
\* Every exception is caught and printed.
decompress_and_restore_paq_78(decompressed_data) ==
    LET m == IF Len(Slice(decompressed_data, 0, 9)) # 9 THEN Raise("struct.error")
             ELSE Ok(<<FromBigEndian(Slice(decompressed_data, 0, 4)),
                       FromBigEndian(Slice(decompressed_data, 4, 8)),
                       FromBigEndian(Slice(decompressed_data, 8, 9))>>)
    IN IF m.err # "none" THEN m
       ELSE LET original_size == m.val[1]
                size == m.val[2]
                num_positions == m.val[3]
                ps == UnpackPositions(
                          Slice(decompressed_data, 9, 9 + num_positions * 4),
                          num_positions)
                strategy == Unpack(Slice(decompressed_data, 9 + num_positions * 4,
                                         10 + num_positions * 4), 1)
                stored == SliceFrom(decompressed_data, 10 + num_positions * 4)
            IN IF ps.err # "none" THEN ps
               ELSE IF strategy.err # "none" THEN strategy
               ELSE LET r == reverse_chunks_94(stored, size, ps.val)
                    IN IF r.err # "none" THEN r
                       ELSE Decoded(original_size, size, ps.val, stored,
                                    Slice(r.val, 0, original_size))

\* ---- Black_Hole_93
\* reverse_chunk(data, chunk_size): data[::-1], the chunk size unused.
reverse_chunk(bytes, size) == ReverseSeq(bytes)

\* add_random_noise(data, noise_level): every byte XOR random.randint(0,
\* noise_level), here with the same value r drawn for every byte.
add_random_noise(bytes, r) == [k \in 1..Len(bytes) |-> Xor8(bytes[k], r)]

\* subtract_1_from_each_byte
subtract_1_from_each_byte(bytes) ==
    [k \in 1..Len(bytes) |-> (bytes[k] + 255) % 256]

\* move_bits_left(data, n): every byte rotated left by n % 8 bits.
move_bits_left(bytes, n) ==
    [k \in 1..Len(bytes) |->
        ((bytes[k] * (2 ^ (n % 8))) % 256) + (bytes[k] \div (2 ^ (8 - (n % 8))))]

\* move_bits_right(data, n): every byte rotated right by n % 8 bits.
move_bits_right(bytes, n) ==
    [k \in 1..Len(bytes) |->
        (bytes[k] \div (2 ^ (n % 8))) + ((bytes[k] * (2 ^ (8 - (n % 8)))) % 256)]

\* random_minus_blocks(data, block_size_bits): the data padded with zeros to
\* whole blocks of block_size_bits // 8 bytes, and the bytes of a random
\* value subtracted from every block, here the same value rand_bytes for
\* every block.  The metadata it returns is dropped by the caller.
random_minus_blocks(bytes, rand_bytes) ==
    LET block_size == Len(rand_bytes)
        padded == bytes \o Zeros((CeilDiv(Len(bytes), block_size) * block_size)
                                 - Len(bytes))
    IN [k \in 1..Len(padded) |->
           (padded[k] + 256 - rand_bytes[((k - 1) % block_size) + 1]) % 256]

\* The fixed block size of add_block_size_64.
BlockSize64 == 64

\* add_block_size_64: every block of 64 bytes, the last zero-padded, behind
\* the two bytes 00 40.
add_block_size_64(bytes) ==
    Join([b \in 1..CeilDiv(Len(bytes), BlockSize64) |->
            BigEndian(BlockSize64, 2)
                \o Slice(bytes, (b - 1) * BlockSize64, b * BlockSize64)
                \o Zeros((b * BlockSize64) - Min(b * BlockSize64, Len(bytes)))])

\* rle_encode_1byte: (byte, count) pairs.  The loop closes a run where the
\* byte changes or the count has reached 255, so a pair begins at index i
\* when i is a whole number of 255s past the first index of its run of equal
\* bytes; its count is the distance to the next beginning (or to the end).
rle_encode_1byte(bytes) ==
    IF bytes = <<>> THEN bytes
    ELSE LET n == Len(bytes)
             changes == {i \in 1..n : i = 1 \/ bytes[i] # bytes[i - 1]}
             run == [i \in 1..n |-> Cardinality({j \in changes : j <= i})] \o <<>>
             change == [r \in 1..Cardinality(changes) |->
                           CHOOSE i \in changes : run[i] = r] \o <<>>
             run_first == [i \in 1..n |-> change[run[i]]] \o <<>>
             begins == {i \in 1..n : (i - run_first[i]) % 255 = 0}
             rank == [i \in 1..n |-> Cardinality({j \in begins : j <= i})] \o <<>>
             begin == [r \in 1..Cardinality(begins) |->
                          CHOOSE i \in begins : rank[i] = r] \o <<>>
             count == [r \in 1..Cardinality(begins) |->
                          (IF r = Cardinality(begins) THEN n + 1
                           ELSE begin[r + 1]) - begin[r]] \o <<>>
         IN [m \in 1..(2 * Cardinality(begins)) |->
                IF m % 2 = 1 THEN bytes[begin[(m + 1) \div 2]]
                ELSE count[m \div 2]]

\* num_transforms of apply_random_transformations.
NumTransforms == 10

\* One draw of the loop of apply_random_transformations applied: the
\* transform random.choice picked with the parameter drawn for it.
ApplyDraw(bytes, draw) ==
    CASE draw.transform = "reverse_chunk" -> reverse_chunk(bytes, draw.param)
      [] draw.transform = "add_random_noise" -> add_random_noise(bytes, draw.param)
      [] draw.transform = "subtract_1_from_each_byte" ->
            subtract_1_from_each_byte(bytes)
      [] draw.transform = "move_bits_left" -> move_bits_left(bytes, draw.param)
      [] draw.transform = "move_bits_right" -> move_bits_right(bytes, draw.param)
      [] OTHER -> random_minus_blocks(bytes, draw.rand_bytes)

\* The draws of the model: each transform with one parameter.
Draws ==
    <<[transform |-> "reverse_chunk", param |-> 1, rand_bytes |-> <<>>],
      [transform |-> "add_random_noise", param |-> 7, rand_bytes |-> <<>>],
      [transform |-> "subtract_1_from_each_byte", param |-> 0, rand_bytes |-> <<>>],
      [transform |-> "move_bits_left", param |-> 3, rand_bytes |-> <<>>],
      [transform |-> "move_bits_right", param |-> 1, rand_bytes |-> <<>>],
      [transform |-> "random_minus_blocks", param |-> 0, rand_bytes |-> <<0, 1>>]>>

\* The loop of apply_random_transformations over a list of draws.
RECURSIVE ApplyDraws(_, _)
ApplyDraws(bytes, draws) ==
    IF draws = <<>> THEN bytes
    ELSE ApplyDraws(ApplyDraw(bytes, Head(draws)) \o <<>>, Tail(draws))

\* The lists of num_transforms draws of the model: reverse_chunk every time
\* (the ten reversals cancel), and the six transforms in turn, forwards and
\* backwards.
DrawLists ==
    {[i \in 1..NumTransforms |-> Draws[1]],
     [i \in 1..NumTransforms |-> Draws[((i - 1) % Len(Draws)) + 1]],
     [i \in 1..NumTransforms |-> Draws[Len(Draws) - ((i - 1) % Len(Draws))]]}

\* apply_random_transformations(data): the transformed data (the marker is
\* not used by the caller) under each list of draws: the transforms, the RLE
\* encoding of data below 1024 bytes, and the 64-byte blocks.
apply_random_transformations(bytes) ==
    {LET t == ApplyDraws(bytes, draws)
     IN add_block_size_64(IF Len(t) < 1024 THEN rle_encode_1byte(t) ELSE t) :
        draws \in DrawLists}

\* ---- Black_Hole_70
\* apply_minus_operation(value)
apply_minus_operation(value) ==
    IF value <= 0 THEN value + ((2 ^ 255) - 1)
    ELSE IF value <= (2 ^ 24) - 1 THEN value + 3
    ELSE value + 1

\* chunk_size = 1 of find_best_chunk_strategy, with the chunk size two.
ChunkSize70_Two == 1 + 1

\* chunk_size = 1 of find_best_chunk_strategy.
ChunkSize70 == 1

\* chunk_size = 1 of compress_with_paq, the chunk size it stores.
StoredChunkSize70 == 1

\* The loop of reverse_chunks_in_memory over the rounds: each round reverses
\* the chunks at the positions it drew.
RECURSIVE ReverseRounds(_, _)
ReverseRounds(chunked_data, rounds) ==
    IF rounds = <<>> THEN chunked_data
    ELSE ReverseRounds(
             [k \in 1..Len(chunked_data) |->
                 IF \E j \in 1..Len(Head(rounds)) : Head(rounds)[j] = k - 1
                     THEN ReverseSeq(chunked_data[k])
                 ELSE chunked_data[k]],
             Tail(rounds))

\* reverse_chunks_in_memory(data, chunk_size, num_reversals, num_sets) with
\* the positions its rounds drew: the chunks, the last one padded with zeros,
\* reversed round by round and joined.  On empty data chunked_data[-1] raises
\* IndexError and the function returns None.
reverse_chunks_in_memory_70(bytes, size, rounds) ==
    IF bytes = <<>> THEN Raise("IndexError")
    ELSE LET chunks == ChunkList(bytes, size)
             last == chunks[Len(chunks)]
             chunked_data == [chunks EXCEPT ![Len(chunks)] =
                                 last \o Zeros(size - Len(last))]
         IN Ok(Join(ReverseRounds(chunked_data, rounds)))

\* compress_with_paq: the bytes handed to paq.compress, the metadata
\* originalSize(8) | chunkSize(4) | numReversals(4) | numSets(4), cut to
\* apply_minus_operation(len(metadata)) bytes, and the data.
compress_with_paq_70(bytes, num_reversals, num_sets, file_size) ==
    LET metadata == BigEndian(file_size, 8) \o BigEndian(StoredChunkSize70, 4)
                        \o BigEndian(num_reversals, 4) \o BigEndian(num_sets, 4)
        modified_metadata_len == apply_minus_operation(Len(metadata))
    IN Slice(metadata, 0, modified_metadata_len) \o bytes

\* decompress_and_restore_paq: the fields it reads from the decompressed
\* bytes (struct.error on a short field).
decompress_and_restore_paq_70_header(decompressed_data) ==
    LET q == Unpack(Slice(decompressed_data, 0, 8), 8)
        c == Unpack(Slice(decompressed_data, 8, 12), 4)
        r == Unpack(Slice(decompressed_data, 12, 16), 4)
        s == Unpack(Slice(decompressed_data, 16, 20), 4)
    IN IF q.err # "none" THEN q
       ELSE IF c.err # "none" THEN c
       ELSE IF r.err # "none" THEN r
       ELSE IF s.err # "none" THEN s
       ELSE Ok([original_size |-> q.val, chunk_size |-> c.val,
                num_reversals |-> r.val, num_sets |-> s.val])

\* ---- Black_Hole_55.2
\* Bit strings are sequences of the bits 0 and 1, the first character first.
\* int(block, 2)
RECURSIVE FromBits(_)
FromBits(bits) ==
    IF bits = <<>> THEN 0
    ELSE 2 * FromBits(SubSeq(bits, 1, Len(bits) - 1)) + bits[Len(bits)]

\* format(n, "0wb") for n below 2**w
ToBits(n, w) == [k \in 1..w |-> (n \div (2 ^ (w - k))) % 2]

\* The length of a block in bits.
BlockBits == 25

\* The marker of an uncompressed block.
Escape == <<1, 1, 1, 1, 1>>

\* constants_map: the 31 values with a 5-bit code, as (value, code) pairs.
constants_map ==
    {<<0, <<0, 0, 0, 0, 0>>>>,
     <<256, <<0, 0, 0, 0, 1>>>>,
     <<348, <<0, 0, 0, 1, 0>>>>,
     <<512, <<0, 0, 0, 1, 1>>>>,
     <<687, <<0, 0, 1, 0, 0>>>>,
     <<999, <<0, 0, 1, 0, 1>>>>,
     <<1024, <<0, 0, 1, 1, 0>>>>,
     <<1156, <<0, 0, 1, 1, 1>>>>,
     <<1500, <<0, 1, 0, 0, 0>>>>,
     <<1987, <<0, 1, 0, 0, 1>>>>,
     <<2048, <<0, 1, 0, 1, 0>>>>,
     <<2555, <<0, 1, 0, 1, 1>>>>,
     <<3000, <<0, 1, 1, 0, 0>>>>,
     <<3567, <<0, 1, 1, 0, 1>>>>,
     <<4000, <<0, 1, 1, 1, 0>>>>,
     <<4096, <<0, 1, 1, 1, 1>>>>,
     <<4999, <<1, 0, 0, 0, 0>>>>,
     <<5120, <<1, 0, 0, 0, 1>>>>,
     <<6000, <<1, 0, 0, 1, 0>>>>,
     <<6666, <<1, 0, 0, 1, 1>>>>,
     <<7000, <<1, 0, 1, 0, 0>>>>,
     <<7500, <<1, 0, 1, 0, 1>>>>,
     <<7777, <<1, 0, 1, 1, 0>>>>,
     <<8000, <<1, 0, 1, 1, 1>>>>,
     <<8500, <<1, 1, 0, 0, 0>>>>,
     <<8888, <<1, 1, 0, 0, 1>>>>,
     <<9000, <<1, 1, 0, 1, 0>>>>,
     <<9999, <<1, 1, 0, 1, 1>>>>,
     <<10000, <<1, 1, 1, 0, 0>>>>,
     <<11000, <<1, 1, 1, 0, 1>>>>,
     <<11136, <<1, 1, 1, 1, 0>>>>}

\* mapping, the reverse of constants_map: the value of a code (defined on the
\* codes of the map).
mapping(code) == (CHOOSE e \in constants_map : e[2] = code)[1]

\* compress_block(block)
compress_block(block) ==
    IF Len(block) # BlockBits THEN Escape \o block
    ELSE LET num == FromBits(block)
         IN IF \E e \in constants_map : e[1] = num
                THEN (CHOOSE e \in constants_map : e[1] = num)[2]
            ELSE Escape \o block

\* decompress_block with every block returned as it is.
decompress_block_AsIs(block) == block

\* decompress_block(block)
decompress_block(block) ==
    IF Len(block) = 5 /\ \E e \in constants_map : e[2] = block
        THEN ToBits(mapping(block), BlockBits)
    ELSE IF Len(block) > 5 /\ SubSeq(block, 1, 5) = Escape
        THEN SliceFrom(block, 5)
    ELSE block

\* compress_data(data) of Black_Hole_55.2: the blocks of 25 bits, the last one
\* shorter when the length is no multiple of 25, compressed and joined.
compress_data_552(bits) ==
    Join([k \in 1..CeilDiv(Len(bits), BlockBits) |->
            compress_block(Slice(bits, (k - 1) * BlockBits, k * BlockBits))])

\* The while loop of decompress_data from index i: the joined result.
RECURSIVE decompress_data_loop(_, _)
decompress_data_loop(bits, i) ==
    IF ~(i < Len(bits)) THEN <<>>
    ELSE IF i + 5 <= Len(bits) /\ Slice(bits, i, i + 5) = Escape
        THEN IF i + 5 + BlockBits <= Len(bits)
                 THEN SliceFrom(Slice(bits, i, i + 5 + BlockBits), 5)
                          \o decompress_data_loop(bits, i + 5 + BlockBits)
             ELSE SliceFrom(bits, i + 5)
    ELSE IF i + 5 <= Len(bits)
        THEN decompress_block(Slice(bits, i, i + 5))
                 \o decompress_data_loop(bits, i + 5)
    ELSE SliceFrom(bits, i)

\* decompress_data(data, original_bits) of Black_Hole_55.2: the result of the
\* loop cut or filled with '0' to original_bits.
decompress_data_552(bits, original_bits) ==
    LET decompressed == decompress_data_loop(bits, 0)
    IN IF Len(decompressed) > original_bits
           THEN Slice(decompressed, 0, original_bits)
       ELSE decompressed \o Zeros(original_bits - Len(decompressed))

\* ---- Black_Hole_90
\* compress_data once paq.compress has returned compressed: a random byte is
\* appended, and [:-1] + modified_last_byte replaces that byte by the last
\* byte of the coder's output XOR 0xFF.  Returns the bytes and last_byte.
compress_data_90(compressed, extra_byte) ==
    LET last_byte == compressed[Len(compressed)]
        appended == compressed \o <<extra_byte>>
        modified_last_byte == Xor8(last_byte, 255)
    IN [compressed_data |-> SubSeq(appended, 1, Len(appended) - 1)
                                \o <<modified_last_byte>>,
        last_byte |-> last_byte]

\* decompress_data up to its call of paq.decompress: the bytes it hands to
\* the decoder.  The extra byte is removed, and the last byte of what is left
\* is replaced by itself XOR 0xFF; last_byte is not used.
decompress_data_90(compressed_data, last_byte) ==
    LET removed == SubSeq(compressed_data, 1, Len(compressed_data) - 1)
        modified_last_byte == removed[Len(removed)]
    IN SubSeq(removed, 1, Len(removed) - 1) \o <<Xor8(modified_last_byte, 255)>>

\* ------------------------------------------ transform and container inputs
\* Byte values of the payloads: the padding byte, a low and a high value.
ByteVals == {0, 1, 255}

\* Payloads of the transform operations.
Payloads == UNION {[1..n -> ByteVals] : n \in 0..MaxLen}

\* Payloads of the container operations (any bytes: already transformed).
CodecPayloads == UNION {[1..n -> {0, 255}] : n \in 0..MaxLen}

SeqsUpTo(S, n) == UNION {[1..k -> S] : k \in 0..n}

\* Position lists of the transform operations: chunk indices and indices past
\* the last chunk, in any order, duplicates included.
TransformPositions == SeqsUpTo(0..MaxLen, MaxPositions)

\* Position lists of the container operations: values of one to four bytes,
\* the last value Black_Hole_1.5.4 packs and the first it refuses; and the
\* lists of 64 and of 65 positions.
CodecPositions ==
    SeqsUpTo({0, 1, 258, PositionLimit154 - 1, PositionLimit154}, MaxPositions)
        \cup {[k \in 1..64 |-> k - 1], [k \in 1..65 |-> k - 1]}

TransformOps ==
    {"reverse_chunks_94", "reverse_chunks_at_positions_71", "reverse_chunks_90"}
CodecOps == {"codec_154", "codec_94"}

VARIABLES
    op,              \* the function under test
    data,            \* its payload argument
    chunk_size,      \* plan: the chunk size
    positions,       \* plan: the chunk indices to reverse
    original_size,   \* container: the stored original size
    calculus_value,  \* container of Black_Hole_94: the stored XOR value
    stage,           \* "input", then the operation last applied
    buf              \* the result of that operation, an [err, val] record

tvars == <<op, data, chunk_size, positions, original_size, calculus_value, stage, buf>>

VARIABLES
    prog,            \* the program (source file) that runs the search
    pc,              \* "Idle", "Searching", "Done", "Raised", "Restored"
    input_data,      \* the bytes of the input file
    args,            \* the budget and the other arguments of the search call
    iteration,       \* passes of the search loop made so far
    best,            \* the best-so-far record of the search (its best_* locals)
    outfile,         \* the compressed file: a blob, or None while not written
    restored,        \* what decompression of the compressed file returns
    now,             \* time.time() - start_time
    pending,         \* the pass of the loop under way: when it began and the
                     \* candidates it has still to evaluate
    consecutive_no_improvements,
    attempt,         \* attempts of run_compression made so far
    best_of_all,     \* run_compression's best over the attempts
    first_attempt,   \* Black_Hole_64: no blob written yet
    first_min,       \* history: the earliest smallest blob evaluated so far
    n_evaluated,     \* history: sampled candidates evaluated so far by a
                     \* search with an iteration budget, all attempts together
    late_evals,      \* history: evaluations started after the deadline
    coded            \* history: the blobs the coder has returned to the attempts
                     \* of Black_Hole_94's main, one per container

svars == <<prog, pc, input_data, args, iteration, best, outfile, restored, now,
           pending, consecutive_no_improvements, attempt, best_of_all,
           first_attempt, first_min, n_evaluated, late_evals, coded>>

vars == <<tvars, svars>>

\* A coder output: the container it encodes and its length in bytes.  None is
\* python's None (no blob); every real blob has at least one byte.
Blob(container, size) == [data |-> container, size |-> size]
None == [data |-> <<>>, size |-> 0]

\* The best-so-far record before any candidate: the locals as initialised.
NoBest == [size |-> 0, data |-> None, chunk_size |-> 1, positions |-> <<>>,
           strategy |-> 0]

\* No pass of a search loop is under way.
NoPending == [active |-> FALSE, began |-> 0, todo |-> <<>>]

\* No search is running (the transform and container specification).
NoSearch ==
    /\ prog = "none"
    /\ pc = "Idle"
    /\ input_data = <<>>
    /\ args = [max_iterations |-> 0, chunk_size |-> 0, num_attempts |-> 0,
               max_time |-> 0, max_no_improve |-> 0]
    /\ iteration = 0
    /\ best = NoBest
    /\ outfile = None
    /\ restored = Ok(<<>>)
    /\ now = 0
    /\ pending = NoPending
    /\ consecutive_no_improvements = 0
    /\ attempt = 0
    /\ best_of_all = None
    /\ first_attempt = TRUE
    /\ first_min = None
    /\ n_evaluated = 0
    /\ late_evals = 0
    /\ coded = {}

TInit ==
    /\ NoSearch
    /\ stage = "input"
    /\ buf = Ok(<<>>)
    /\ \/ /\ op \in TransformOps
          /\ data \in Payloads
          /\ chunk_size \in 0..MaxChunk
          /\ positions \in TransformPositions
          /\ original_size = Len(data)
          /\ calculus_value = 0
       \/ /\ op \in CodecOps
          /\ data \in CodecPayloads
          /\ chunk_size \in (0..MaxChunk) \cup {65536}
          /\ positions \in CodecPositions
          /\ original_size \in {Len(data), 70000}
          /\ calculus_value \in IF op = "codec_94" THEN {0, 255, 131071} ELSE {0}

\* The transform under test applied to a buffer.
Transform(buffer) ==
    IF op = "reverse_chunks_94" THEN reverse_chunks_94(buffer, chunk_size, positions)
    ELSE IF op = "reverse_chunks_90" THEN reverse_chunks_90(buffer, chunk_size, positions)
    ELSE reverse_chunks_at_positions_71(buffer, chunk_size, positions)

\* apply(payload, plan)
Apply ==
    /\ op \in TransformOps
    /\ stage = "input"
    /\ buf' = Transform(data)
    /\ stage' = "applied"
    /\ UNCHANGED <<op, data, chunk_size, positions, original_size, calculus_value, svars>>

\* invert(transformed, plan): the same function on the transformed buffer.
Invert ==
    /\ op \in TransformOps
    /\ stage = "applied"
    /\ buf.err = "none"
    /\ buf' = Transform(buf.val)
    /\ stage' = "inverted"
    /\ UNCHANGED <<op, data, chunk_size, positions, original_size, calculus_value, svars>>

\* restored[:original_size]
Truncate ==
    /\ op \in TransformOps
    /\ stage = "inverted"
    /\ buf.err = "none"
    /\ buf' = Ok(Slice(buf.val, 0, original_size))
    /\ stage' = "restored"
    /\ UNCHANGED <<op, data, chunk_size, positions, original_size, calculus_value, svars>>

\* encode(plan, transformed): the container bytes handed to the coder.
Encode ==
    /\ op \in CodecOps
    /\ stage = "input"
    /\ buf' = IF op = "codec_154"
                 THEN compress_with_zstd_154(data, chunk_size, positions, original_size)
                 ELSE compress_data_94(data, chunk_size, positions, original_size,
                                       calculus_value)
    /\ stage' = "encoded"
    /\ UNCHANGED <<op, data, chunk_size, positions, original_size, calculus_value, svars>>

\* decode(bytes) on the container the coder gives back.
Decode ==
    /\ op \in CodecOps
    /\ stage = "encoded"
    /\ buf.err = "none"
    /\ buf' = IF op = "codec_154" THEN decompress_and_restore_zstd_154(buf.val)
              ELSE decompress_data_94(buf.val)
    /\ stage' = "decoded"
    /\ UNCHANGED <<op, data, chunk_size, positions, original_size, calculus_value, svars>>

TNext == Apply \/ Invert \/ Truncate \/ Encode \/ Decode

SpecT == TInit /\ [][TNext]_vars

\* ------------------------------------------------------ SearchController
\* The input file of n bytes: 0, 85, 170, 255, 84, ...
FileBytes(n) == [k \in 1..n |-> ((k - 1) * 85) % 256]

SearchPayloads == {FileBytes(n) : n \in 0..MaxFile}

\* float('inf') and Black_Hole_64's 10**12: above every blob length.
Infinity == MaxBlob + 1

\* sorted(random.sample(range(m), n)): the increasing lists of n values below m.
SortedSamples(m, n) ==
    {s \in [1..n -> 0..(m - 1)] : \A j, k \in 1..n : j < k => s[j] < s[k]}

\* random.sample(range(m), n): the lists of n distinct values below m.
Samples(m, n) ==
    {s \in [1..n -> 0..(m - 1)] : \A j, k \in 1..n : j # k => s[j] # s[k]}

\* len(paq.compress(container)): the coder is an external library, and the
\* search reads only the length of its output, which is any value from 1 to
\* MaxBlob; the container of the best-so-far blob compresses to that blob again.
CoderSizes(container) ==
    IF best.data # None /\ best.data.data = container THEN {best.data.size}
    ELSE IF outfile # None /\ outfile.data = container THEN {outfile.size}
    ELSE 1..MaxBlob

\* paq.decompress(blob): the container the blob encodes.
paq_decompress(blob) == blob.data

\* History: the earliest smallest blob once this one is evaluated too.
EarliestMin(blob) ==
    IF first_min = None \/ blob.size < first_min.size THEN blob ELSE first_min

\* History of one evaluated candidate of a search with an iteration budget.
Evaluated(blob) ==
    /\ first_min' = EarliestMin(blob)
    /\ n_evaluated' = n_evaluated + 1

\* The comparison with a tie counted as an improvement.
Improves_OrTies(size, best_size) == size <= best_size

\* The comparison with any other size counted as an improvement.
Improves_Different(size, best_size) == size # best_size

\* if comp_size < best_size: the candidate replaces the best-so-far.  The
\* programs that compare ratios divide both sizes by the same file size.
Improves(size, best_size) == size < best_size

\* for _ in range(max_iterations), with one pass too many.
MoreIterations_Inclusive == iteration <= args.max_iterations

\* for _ in range(max_iterations): the loop of find_best_iteration has a pass
\* left.
MoreIterations == iteration < args.max_iterations

\* ---- Black_Hole_94
\* random.randint(1, (2 ** x) - 1) for x in 7..17: three of the values.
CalculusValues == {1, 258, 131071}

\* Chunk sizes of a Black_Hole_94 search: 2**(2**n) from main (4 is the one
\* within reach of the model's files) and the small sizes the function takes.
ChunkSizes94 == (1..MaxChunk) \cup {4}

\* find_best_iteration up to its loop: the baseline (no positions, calculus
\* value 0) is compressed and becomes the best; best_size / len(input_data)
\* raises ZeroDivisionError on an empty input.
find_best_iteration_94_baseline ==
    /\ prog = "94"
    /\ pc = "Idle"
    /\ LET c == compress_data_94(input_data, args.chunk_size, <<>>,
                                 Len(input_data), 0)
       IN \E size \in CoderSizes(c.val) :
            LET best_result == Blob(c.val, size)
            IN /\ best' = [best EXCEPT !.size = size, !.data = best_result]
               /\ first_min' = best_result
               /\ pc' = IF Len(input_data) = 0 THEN "Raised" ELSE "Searching"
    /\ UNCHANGED <<prog, input_data, args, iteration, outfile, restored, now,
                   pending, consecutive_no_improvements, attempt, best_of_all,
                   first_attempt, n_evaluated, late_evals, coded, tvars>>

\* One pass of the loop of find_best_iteration: a sampled candidate replaces
\* the best when comp_size < best_size.
find_best_iteration_94_iter ==
    /\ prog = "94"
    /\ pc = "Searching"
    /\ MoreIterations
    /\ \E cv \in CalculusValues,
          num_pos \in 0..Min(Len(input_data) \div args.chunk_size, MAX_POSITIONS) :
        \E pos \in SortedSamples(Len(input_data) \div args.chunk_size, num_pos) :
            LET transformed == apply_calculus(input_data, cv)
                reversed_data == reverse_chunks_94(transformed, args.chunk_size, pos)
                c == compress_data_94(reversed_data.val, args.chunk_size, pos,
                                      Len(input_data), cv)
            IN \E comp_size \in CoderSizes(c.val) :
                LET compressed == Blob(c.val, comp_size)
                IN /\ best' = IF Improves(comp_size, best.size)
                                  THEN [best EXCEPT !.size = comp_size,
                                                    !.data = compressed]
                                  ELSE best
                   /\ Evaluated(compressed)
    /\ iteration' = iteration + 1
    /\ UNCHANGED <<prog, pc, input_data, args, outfile, restored, now, pending,
                   consecutive_no_improvements, attempt, best_of_all,
                   first_attempt, late_evals, coded, tvars>>

\* The loop is exhausted: find_best_iteration returns best_data, and
\* process_large_file writes it to the output file when it is not empty.
find_best_iteration_94_return ==
    /\ prog = "94"
    /\ pc = "Searching"
    /\ ~MoreIterations
    /\ outfile' = IF best.data # None THEN best.data ELSE outfile
    /\ pc' = "Done"
    /\ UNCHANGED <<prog, input_data, args, iteration, best, restored, now,
                   pending, consecutive_no_improvements, attempt, best_of_all,
                   first_attempt, first_min, n_evaluated, late_evals, coded, tvars>>

\* process_large_file in "decompress" mode on the compressed file.
process_large_file_94_decompress ==
    /\ prog = "94"
    /\ pc = "Done"
    /\ outfile # None
    /\ LET r == decompress_data_94(paq_decompress(outfile))
       IN restored' = IF r.err = "none" THEN Ok(r.val.restored) ELSE Raise(r.err)
    /\ pc' = "Restored"
    /\ UNCHANGED <<prog, input_data, args, iteration, best, outfile, now,
                   pending, consecutive_no_improvements, attempt, best_of_all,
                   first_attempt, first_min, n_evaluated, late_evals, coded, tvars>>

\* ---- Black_Hole_82, Black_Hole_78, Black_Hole_86
\* compress_with_paq of Black_Hole_82 and Black_Hole_78: the bytes handed to
\* paq.compress, originalSize(4) | chunkSize(4) | positionCount(1) |
\* positions(4 each) | strategy(1) | data.
compress_with_paq_82(reversed_data, size, pos, file_size, strategy) ==
    LET o == PackI(file_size)
        c == PackI(size)
        n == PackB(Len(pos))
        ps == PackPositions(pos)
        st == PackB(strategy)
    IN IF o.err # "none" THEN o
       ELSE IF c.err # "none" THEN c
       ELSE IF n.err # "none" THEN n
       ELSE IF ps.err # "none" THEN ps
       ELSE IF st.err # "none" THEN st
       ELSE Ok(o.val \o c.val \o n.val \o ps.val \o st.val \o reversed_data)

\* Black_Hole_86.compress_data: originalSize(4) | chunkSize(4) |
\* positionCount(1) | positions(4 each) | data.
compress_data_86(reversed_data, size, pos, file_size) ==
    LET o == PackI(file_size)
        c == PackI(size)
        n == PackB(Len(pos))
        ps == PackPositions(pos)
    IN IF o.err # "none" THEN o
       ELSE IF c.err # "none" THEN c
       ELSE IF n.err # "none" THEN n
       ELSE IF ps.err # "none" THEN ps
       ELSE Ok(o.val \o c.val \o n.val \o ps.val \o reversed_data)

\* os.urandom(4): two of the values.
RandomBytes == {<<0, 0, 0, 0>>, <<17, 34, 51, 68>>}

\* Black_Hole_78.add_random_bytes for files below 200 bytes (one insertion):
\* the results of inserting 4 random bytes at a random offset.
add_random_bytes(bytes) ==
    {Slice(bytes, 0, at) \o r \o SliceFrom(bytes, at) :
        at \in 0..Max(0, Len(bytes) - 4), r \in RandomBytes}

\* main of Black_Hole_78 in decompress mode on the file run_compression wrote.
decompress_and_restore_paq_78_file ==
    /\ prog = "78"
    /\ pc = "Done"
    /\ outfile # None
    /\ LET r == decompress_and_restore_paq_78(paq_decompress(outfile))
       IN restored' = IF r.err = "none" THEN Ok(r.val.restored) ELSE Raise(r.err)
    /\ pc' = "Restored"
    /\ UNCHANGED <<prog, input_data, args, iteration, best, outfile, now,
                   pending, consecutive_no_improvements, attempt, best_of_all,
                   first_attempt, first_min, n_evaluated, late_evals, coded,
                   tvars>>

\* The chunk sizes a pass of find_best_iteration can draw.
\* Black_Hole_82, Black_Hole_78: random.randint(1, min(256, file_size)).
\* Black_Hole_86: best_chunk_size or min(128, len(input_data) // 2); the first
\* candidate always becomes the best, so the size stays the default.
IterChunkSizes ==
    IF prog = "86" THEN {Min(128, Len(input_data) \div 2)}
    ELSE 1..Min(256, Len(input_data))

\* run_compression calls find_best_iteration for the next attempt, which sets
\* its best-so-far to (None, inf).
run_compression_attempt ==
    /\ prog \in {"82", "78", "86"}
    /\ pc \in {"Idle", "Attempts"}
    /\ attempt < args.num_attempts
    /\ pc' = "Searching"
    /\ best' = [NoBest EXCEPT !.size = Infinity]
    /\ iteration' = 0
    /\ first_min' = None
    /\ UNCHANGED <<prog, input_data, args, outfile, restored, now, pending,
                   consecutive_no_improvements, attempt, best_of_all,
                   first_attempt, n_evaluated, late_evals, coded, tvars>>

\* One pass of the loop of find_best_iteration in Black_Hole_82 and
\* Black_Hole_86: one sampled candidate, kept when its ratio is below the best.
find_best_iteration_82_iter ==
    /\ prog \in {"82", "86"}
    /\ pc = "Searching"
    /\ MoreIterations
    /\ IterChunkSizes # {} /\ 0 \notin IterChunkSizes
    /\ \E size \in IterChunkSizes :
        \E num_positions \in 0..Min(Len(input_data) \div size, MAX_POSITIONS) :
        \E pos \in SortedSamples(Len(input_data) \div size, num_positions) :
            LET reversed_data == reverse_chunks_94(input_data, size, pos)
                c == IF prog = "82"
                        THEN compress_with_paq_82(reversed_data.val, size, pos,
                                                  Len(input_data), 0)
                        ELSE compress_data_86(reversed_data.val, size, pos,
                                              Len(input_data))
            IN \E n \in CoderSizes(c.val) :
                LET compressed_data == Blob(c.val, n)
                IN /\ best' = IF Improves(n, best.size)
                                  THEN [best EXCEPT !.size = n,
                                                    !.data = compressed_data,
                                                    !.chunk_size = size]
                                  ELSE best
                   /\ Evaluated(compressed_data)
    /\ iteration' = iteration + 1
    /\ UNCHANGED <<prog, pc, input_data, args, outfile, restored, now, pending,
                   consecutive_no_improvements, attempt, best_of_all,
                   first_attempt, late_evals, coded, tvars>>

\* The pass raises before it evaluates a candidate: random.randint(1, 0) on
\* an empty file (ValueError), or Black_Hole_86's chunk size 0 for a file of
\* less than two bytes (ZeroDivisionError).
find_best_iteration_82_raise ==
    /\ prog \in {"82", "78", "86"}
    /\ pc = "Searching"
    /\ MoreIterations
    /\ IterChunkSizes = {} \/ 0 \in IterChunkSizes
    /\ pc' = "Raised"
    /\ UNCHANGED <<prog, input_data, args, iteration, best, outfile, restored,
                   now, pending, consecutive_no_improvements, attempt,
                   best_of_all, first_attempt, first_min, n_evaluated,
                   late_evals, coded, tvars>>

\* One pass of the loop of Black_Hole_78.find_best_iteration: the candidate of
\* strategy 1 (chunks reversed), then that of strategy 2 (random bytes added).
find_best_iteration_78_iter ==
    /\ prog = "78"
    /\ pc = "Searching"
    /\ MoreIterations
    /\ IterChunkSizes # {}
    /\ \E size \in IterChunkSizes :
        \E num_positions \in 0..Min(Len(input_data) \div size, MAX_POSITIONS) :
        \E pos \in SortedSamples(Len(input_data) \div size, num_positions) :
            LET reversed_data_1 == reverse_chunks_94(input_data, size, pos)
                c1 == compress_with_paq_82(reversed_data_1.val, size, pos,
                                           Len(input_data), 1)
            IN \E modified_data_2 \in add_random_bytes(reversed_data_1.val) :
                LET c2 == compress_with_paq_82(modified_data_2, size, pos,
                                               Len(input_data), 2)
                IN \E n1 \in CoderSizes(c1.val), n2 \in CoderSizes(c2.val) :
                    LET compressed_data_1 == Blob(c1.val, n1)
                        compressed_data_2 == Blob(c2.val, n2)
                    IN /\ best' =
                            IF n1 < n2 /\ n1 < best.size
                                THEN [best EXCEPT !.size = n1,
                                                  !.data = compressed_data_1,
                                                  !.strategy = 1]
                            ELSE IF n2 < best.size
                                THEN [best EXCEPT !.size = n2,
                                                  !.data = compressed_data_2,
                                                  !.strategy = 2]
                            ELSE best
                       /\ first_min' =
                            IF first_min = None \/ Min(n1, n2) < first_min.size
                                THEN (IF n1 <= n2 THEN compressed_data_1
                                      ELSE compressed_data_2)
                                ELSE first_min
                       /\ n_evaluated' = n_evaluated + 2
    /\ iteration' = iteration + 1
    /\ UNCHANGED <<prog, pc, input_data, args, outfile, restored, now, pending,
                   consecutive_no_improvements, attempt, best_of_all,
                   first_attempt, late_evals, coded, tvars>>

\* find_best_iteration returns to run_compression, which keeps the attempt's
\* blob when it is not None and its ratio is below the best of the attempts.
\* Black_Hole_86 takes len(compressed_data) first: TypeError on None.
find_best_iteration_82_return ==
    /\ prog \in {"82", "78", "86"}
    /\ pc = "Searching"
    /\ ~MoreIterations
    /\ IF prog = "86" /\ best.data = None
          THEN /\ pc' = "Raised"
               /\ UNCHANGED <<best_of_all, attempt>>
          ELSE /\ pc' = "Attempts"
               /\ attempt' = attempt + 1
               /\ best_of_all' =
                    IF best.data # None
                       /\ best.size < (IF best_of_all = None THEN Infinity
                                       ELSE best_of_all.size)
                        THEN best.data ELSE best_of_all
    /\ UNCHANGED <<prog, input_data, args, iteration, best, outfile, restored,
                   now, pending, consecutive_no_improvements, first_attempt,
                   first_min, n_evaluated, late_evals, coded, tvars>>

\* The attempts are made.  Black_Hole_82 and Black_Hole_78 write the best of
\* them (outfile.write(None) raises TypeError); Black_Hole_86 returns it to
\* main, which writes it when it is not None.
run_compression_save ==
    /\ prog \in {"82", "78", "86"}
    /\ pc \in {"Idle", "Attempts"}
    /\ attempt = args.num_attempts
    /\ outfile' = best_of_all
    /\ pc' = IF prog # "86" /\ best_of_all = None THEN "Raised" ELSE "Done"
    /\ UNCHANGED <<prog, input_data, args, iteration, best, restored, now,
                   pending, consecutive_no_improvements, attempt, best_of_all,
                   first_attempt, first_min, n_evaluated, late_evals, coded, tvars>>

\* ---- the searches without an iteration budget
\* The test of the deadline with the deadline itself still open.
DeadlineOpen_Inclusive == now <= args.max_time

\* time.time() - start_time < max_time_seconds
DeadlineOpen == now < args.max_time

\* The condition of the while loop of find_best_chunk_strategy.
WhileCondition ==
    CASE prog = "71" ->
            consecutive_no_improvements < args.max_no_improve /\ DeadlineOpen
      [] prog = "73.1" -> consecutive_no_improvements < args.max_no_improve
      [] prog \in {"75", "58", "59"} -> DeadlineOpen
      [] OTHER -> TRUE

\* find_best_chunk_strategy up to its loop: the best ratio is float('inf')
\* (Black_Hole_64: previous_size = 10**12), the best plan (1, []).
find_best_chunk_strategy_start ==
    /\ prog \in {"64", "71", "73.1", "75", "58", "59"}
    /\ pc = "Idle"
    /\ pc' = "Searching"
    /\ best' = [NoBest EXCEPT !.size = Infinity]
    /\ consecutive_no_improvements' = 0
    /\ first_attempt' = TRUE
    /\ UNCHANGED <<prog, input_data, args, iteration, outfile, restored, now,
                   pending, attempt, best_of_all, first_min, n_evaluated,
                   late_evals, coded, tvars>>

\* The clock moves on while a search runs.
Tick ==
    /\ prog \in {"71", "75", "58", "59"}
    /\ pc = "Searching"
    /\ now < MaxTime
    /\ now' = now + 1
    /\ UNCHANGED <<prog, pc, input_data, args, iteration, best, outfile,
                   restored, pending, consecutive_no_improvements, attempt,
                   best_of_all, first_attempt, first_min, n_evaluated,
                   late_evals, coded, tvars>>

\* ---- Black_Hole_64
\* i * (2**31) // n for 0 <= i < n, by way of 2**30 = q0 * n + r0 (the product
\* i * 2**31 itself is beyond 32-bit integers).
Spaced(i, n) ==
    IF i = 0 THEN 0
    ELSE LET q0 == 1073741824 \div n
             r0 == 1073741824 % n
             q == (2 * q0) + ((2 * r0) \div n)
             r == (2 * r0) % n
         IN (i * q) + ((i * r) \div n)

\* positions = [i * (2**31) // n for i in range(count)]
SpacedPositions(n, count) == [k \in 1..count |-> Spaced(k - 1, n)]

\* Black_Hole_64.reverse_chunks_at_positions: the last chunk zero-padded, the
\* positions spaced over the number of chunks, those within the list reversed.
reverse_chunks_at_positions_64(bytes, size, number_of_positions) ==
    LET chunked_data == ChunkList(bytes, size)
    IN IF chunked_data = <<>> THEN Raise("IndexError")
       ELSE LET last == chunked_data[Len(chunked_data)]
                padded == [chunked_data EXCEPT ![Len(chunked_data)] =
                               last \o Zeros(size - Len(last))]
            IN Ok(Join(ReverseAt(padded,
                    SpacedPositions(Len(chunked_data), number_of_positions))))

\* The bytes Black_Hole_64.compress_with_paq hands to paq.compress:
\* originalSize(8) | chunkSize(4) | positionCount(4) | positions(4 each) | data.
\* Black_Hole_58 and Black_Hole_59 pack the same header.
compress_with_paq_64(reversed_data, size, pos, file_size) ==
    LET o == PackQ(file_size)
        c == PackI(size)
        n == PackI(Len(pos))
        ps == PackPositions(pos)
    IN IF o.err # "none" THEN o
       ELSE IF c.err # "none" THEN c
       ELSE IF n.err # "none" THEN n
       ELSE IF ps.err # "none" THEN ps
       ELSE Ok(o.val \o c.val \o n.val \o ps.val \o reversed_data)

\* One pass of the while True loop of Black_Hole_64.find_best_chunk_strategy.
\* compress_with_paq writes the blob on the first attempt and whenever it is
\* smaller than previous_size, and returns the size the caller compares; a
\* pass on an empty file does nothing.
find_best_chunk_strategy_64_iter ==
    /\ prog = "64"
    /\ pc = "Searching"
    /\ IF Len(input_data) = 0
          THEN UNCHANGED <<best, outfile, first_attempt, first_min>>
          ELSE \E positions_count \in 1..Min(Len(input_data), 64) :
            LET pos == SpacedPositions(Len(input_data), positions_count)
                reversed_data ==
                    reverse_chunks_at_positions_64(input_data, 1, positions_count)
                c == compress_with_paq_64(reversed_data.val, 1, pos,
                                          Len(input_data))
            IN \E n \in CoderSizes(c.val) :
                LET compressed_data == Blob(c.val, n)
                    written == first_attempt \/ Improves(n, best.size)
                    compressed_size == IF written THEN n ELSE best.size
                IN /\ outfile' = IF written THEN compressed_data ELSE outfile
                   /\ first_attempt' = FALSE
                   /\ best' = IF compressed_size < best.size
                                  THEN [best EXCEPT !.size = compressed_size,
                                                    !.data = compressed_data,
                                                    !.positions = pos]
                                  ELSE best
                   /\ first_min' = EarliestMin(compressed_data)
    /\ UNCHANGED <<prog, pc, input_data, args, iteration, restored, now,
                   pending, consecutive_no_improvements, attempt, best_of_all,
                   n_evaluated, late_evals, coded, tvars>>

\* ---- Black_Hole_71, Black_Hole_73.1
\* The bytes compress_with_paq hands to paq.compress: originalSize(4) |
\* chunkSize(4) | positionCount (4 bytes in Black_Hole_71, 1 byte in
\* Black_Hole_73.1) | positions(4 each) | data.
compress_with_paq_71(bytes, size, pos, file_size) ==
    LET o == PackI(file_size)
        c == PackI(size)
        n == IF prog = "71" THEN PackI(Len(pos)) ELSE PackB(Len(pos))
        ps == PackPositions(pos)
    IN IF o.err # "none" THEN o
       ELSE IF c.err # "none" THEN c
       ELSE IF n.err # "none" THEN n
       ELSE IF ps.err # "none" THEN ps
       ELSE Ok(o.val \o c.val \o n.val \o ps.val \o bytes)

\* Black_Hole_73.1.subtract_random_value: the data as an integer minus a
\* random value of -1..2**64-1, wrapped to 64 bits, in the fewest bytes that
\* hold it: any byte string of at most 8 bytes with no leading zero.  Three
\* of them.
subtract_random_value(bytes) == {<<>>, <<1>>, <<255, 0>>}

\* The chunk sizes a pass can draw: random.randint(1, 256) in Black_Hole_71
\* (the small ones and the largest), random.randint(1, min(256, file_size))
\* in Black_Hole_73.1.
ChunkSizes71 ==
    IF prog = "71" THEN (1..MaxChunk) \cup {256}
    ELSE 1..Min(256, Len(input_data))

\* The pass raises: random.randint(1, 0) on an empty file in Black_Hole_73.1
\* (ValueError), chunked_data[-1] on an empty file in Black_Hole_71
\* (IndexError).
PassRaises71 == Len(input_data) = 0

\* One pass of the while loop of find_best_chunk_strategy.
find_best_chunk_strategy_71_iter ==
    /\ prog \in {"71", "73.1"}
    /\ pc = "Searching"
    /\ WhileCondition
    /\ ~PassRaises71
    /\ \E size \in ChunkSizes71 :
        \E num_positions \in 0..Min(Len(input_data) \div size, 64) :
        \E pos \in SortedSamples(Len(input_data) \div size, num_positions) :
            LET reversed_data ==
                    reverse_chunks_at_positions_71(input_data, size, pos)
            IN \E bytes \in (IF prog = "71" THEN {reversed_data.val}
                             ELSE subtract_random_value(reversed_data.val)) :
                LET c == compress_with_paq_71(bytes, size, pos, Len(input_data))
                IN \E n \in CoderSizes(c.val) :
                    LET compressed_data == Blob(c.val, n)
                    IN /\ IF Improves(n, best.size)
                             THEN /\ best' = [best EXCEPT
                                                !.size = n,
                                                !.data = compressed_data,
                                                !.chunk_size = size,
                                                !.positions = pos]
                                  /\ consecutive_no_improvements' = 0
                             ELSE /\ best' = best
                                  /\ consecutive_no_improvements' =
                                        consecutive_no_improvements + 1
                       /\ first_min' = EarliestMin(compressed_data)
    /\ UNCHANGED <<prog, pc, input_data, args, iteration, outfile, restored,
                   now, pending, attempt, best_of_all, first_attempt,
                   n_evaluated, late_evals, coded, tvars>>

\* The pass raises and the exception leaves find_best_chunk_strategy.
find_best_chunk_strategy_71_raise ==
    /\ prog \in {"71", "73.1"}
    /\ pc = "Searching"
    /\ WhileCondition
    /\ PassRaises71
    /\ pc' = "Raised"
    /\ UNCHANGED <<prog, input_data, args, iteration, best, outfile, restored,
                   now, pending, consecutive_no_improvements, attempt,
                   best_of_all, first_attempt, first_min, n_evaluated,
                   late_evals, coded, tvars>>

\* The loop is left: the best plan is transformed and compressed again and
\* the blob written.  An exception here is caught and printed, and leaves
\* the file that open() created empty.
find_best_chunk_strategy_71_save ==
    /\ prog \in {"71", "73.1"}
    /\ pc = "Searching"
    /\ ~WhileCondition
    /\ LET reversed_data ==
               reverse_chunks_at_positions_71(input_data, best.chunk_size,
                                              best.positions)
           c == compress_with_paq_71(reversed_data.val, best.chunk_size,
                                     best.positions, Len(input_data))
       IN IF reversed_data.err # "none" \/ c.err # "none"
             THEN outfile' = None
             ELSE \E n \in CoderSizes(c.val) : outfile' = Blob(c.val, n)
    /\ pc' = "Done"
    /\ UNCHANGED <<prog, input_data, args, iteration, best, restored, now,
                   pending, consecutive_no_improvements, attempt, best_of_all,
                   first_attempt, first_min, n_evaluated, late_evals, coded, tvars>>

\* ---- Black_Hole_58, Black_Hole_59
\* MAX_POSITIONS_FACTOR = 0.1, as the divisor of int(max_chunks * 0.1).
MAX_POSITIONS_DIVISOR == 10

\* range(64, min(513, file_size + 1), 64)
ChunkSizeRange(file_size) ==
    [k \in 1..Max(0, CeilDiv(Min(513, file_size + 1) - 64, 64)) |-> 64 * k]

\* max_positions with no cap: a position for every chunk.
MaxPositionsOf_Uncapped(file_size, size) == CeilDiv(file_size, size)

\* max_positions for a chunk size: int(max_chunks * MAX_POSITIONS_FACTOR) in
\* Black_Hole_58, min(max_chunks, 64) in Black_Hole_59.
MaxPositionsOf(file_size, size) ==
    LET max_chunks == CeilDiv(file_size, size)
    IN IF prog = "58" THEN max_chunks \div MAX_POSITIONS_DIVISOR
       ELSE Min(max_chunks, 64)

\* reverse_chunks_in_memory: Black_Hole_58 leaves the last chunk as it is,
\* Black_Hole_59 pads it; an exception is caught and None returned.
reverse_chunks_in_memory(bytes, size, pos) ==
    IF prog = "58" THEN reverse_chunks_94(bytes, size, pos)
    ELSE reverse_chunks_at_positions_71(bytes, size, pos)

\* random.sample(range(max_chunks), max_positions): the lists of
\* max_positions distinct chunk indices, drawn here from the first and the
\* last chunk.
PassSamples(max_chunks, max_positions) ==
    {pos \in Samples(max_chunks, max_positions) :
        \A k \in DOMAIN pos : pos[k] \in {0, max_chunks - 1}}

\* One step of a pass of the while loop of find_best_chunk_strategy: the test
\* of the deadline when the pass begins, then the next chunk size of the for
\* loop.  compress_with_paq writes the blob of every candidate to the
\* compressed file; the best_* locals record the smallest.
find_best_chunk_strategy_58_pass ==
    /\ prog \in {"58", "59"}
    /\ pc = "Searching"
    /\ pending.active \/ WhileCondition
    /\ LET todo == IF pending.active THEN pending.todo
                   ELSE ChunkSizeRange(Len(input_data))
           began == IF pending.active THEN pending.began ELSE now
       IN IF todo = <<>>
             THEN UNCHANGED <<best, outfile, pending, first_min, late_evals>>
             ELSE
               /\ pending' = IF Tail(todo) = <<>> THEN NoPending
                             ELSE [active |-> TRUE, began |-> began,
                                   todo |-> Tail(todo)]
               /\ LET size == Head(todo)
                      max_chunks == CeilDiv(Len(input_data), size)
                      max_positions == MaxPositionsOf(Len(input_data), size)
                  IN IF max_positions = 0
                        THEN UNCHANGED <<best, outfile, first_min, late_evals>>
                        ELSE \E pos \in PassSamples(max_chunks, max_positions) :
                          LET reversed_data ==
                                  reverse_chunks_in_memory(input_data, size, pos)
                              c == compress_with_paq_64(reversed_data.val, size,
                                                        pos, Len(input_data))
                          IN \E n \in CoderSizes(c.val) :
                              LET compressed_data == Blob(c.val, n)
                              IN /\ outfile' = compressed_data
                                 /\ best' = IF Improves(n, best.size)
                                     THEN [best EXCEPT !.size = n,
                                                       !.data = compressed_data,
                                                       !.chunk_size = size,
                                                       !.positions = pos]
                                     ELSE best
                                 /\ first_min' = EarliestMin(compressed_data)
                                 /\ late_evals' = IF DeadlineOpen THEN late_evals
                                                  ELSE late_evals + 1
    /\ UNCHANGED <<prog, pc, input_data, args, iteration, restored, now,
                   consecutive_no_improvements, attempt, best_of_all,
                   first_attempt, n_evaluated, coded, tvars>>

\* The deadline has passed when a pass would begin: the best is printed and
\* find_best_chunk_strategy returns True.
find_best_chunk_strategy_58_return ==
    /\ prog \in {"58", "59"}
    /\ pc = "Searching"
    /\ ~pending.active
    /\ ~WhileCondition
    /\ pc' = "Done"
    /\ UNCHANGED <<prog, input_data, args, iteration, best, outfile, restored,
                   now, pending, consecutive_no_improvements, attempt,
                   best_of_all, first_attempt, first_min, n_evaluated,
                   late_evals, coded, tvars>>

\* ---- Black_Hole_75
\* A pass of the while loop begins: the deadline is tested, a plan sampled
\* and the candidate of strategy 1 (chunks reversed, strategy byte 0)
\* compressed.
find_best_chunk_strategy_75_first ==
    /\ prog = "75"
    /\ pc = "Searching"
    /\ ~pending.active
    /\ WhileCondition
    /\ Len(input_data) > 0
    /\ \E size \in 1..Min(256, Len(input_data)) :
        \E num_positions \in 0..Min(Len(input_data) \div size, 64) :
        \E pos \in SortedSamples(Len(input_data) \div size, num_positions) :
            LET reversed_data_1 ==
                    reverse_chunks_at_positions_71(input_data, size, pos)
                c1 == compress_with_paq_82(reversed_data_1.val, size, pos,
                                           Len(input_data), 0)
            IN \E n1 \in CoderSizes(c1.val) :
                LET compressed_data_1 == Blob(c1.val, n1)
                IN /\ pending' = [active |-> TRUE, began |-> now,
                                  todo |-> <<[chunk_size |-> size,
                                              positions |-> pos,
                                              data |-> compressed_data_1]>>]
                   /\ first_min' = EarliestMin(compressed_data_1)
    /\ UNCHANGED <<prog, pc, input_data, args, iteration, best, outfile,
                   restored, now, consecutive_no_improvements, attempt,
                   best_of_all, first_attempt, n_evaluated, late_evals, coded, tvars>>

\* random.randint(1, 0) raises ValueError on an empty file.
find_best_chunk_strategy_75_raise ==
    /\ prog = "75"
    /\ pc = "Searching"
    /\ ~pending.active
    /\ WhileCondition
    /\ Len(input_data) = 0
    /\ pc' = "Raised"
    /\ UNCHANGED <<prog, input_data, args, iteration, best, outfile, restored,
                   now, pending, consecutive_no_improvements, attempt,
                   best_of_all, first_attempt, first_min, n_evaluated,
                   late_evals, coded, tvars>>

\* The pass goes on: the candidate of strategy 2 (random bytes added,
\* strategy byte 1) is compressed and the better of the two compared with
\* the best.
find_best_chunk_strategy_75_second ==
    /\ prog = "75"
    /\ pc = "Searching"
    /\ pending.active
    /\ LET plan == Head(pending.todo)
           reversed_data_2 ==
               reverse_chunks_at_positions_71(input_data, plan.chunk_size,
                                              plan.positions)
       IN \E modified_data_2 \in add_random_bytes(reversed_data_2.val) :
           LET c2 == compress_with_paq_82(modified_data_2, plan.chunk_size,
                                          plan.positions, Len(input_data), 1)
           IN \E n2 \in CoderSizes(c2.val) :
               LET n1 == plan.data.size
                   compressed_data_2 == Blob(c2.val, n2)
               IN /\ best' =
                       IF n1 < n2 /\ n1 < best.size
                           THEN [best EXCEPT !.size = n1,
                                             !.data = plan.data,
                                             !.chunk_size = plan.chunk_size,
                                             !.positions = plan.positions,
                                             !.strategy = 0]
                       ELSE IF n2 < best.size
                           THEN [best EXCEPT !.size = n2,
                                             !.data = compressed_data_2,
                                             !.chunk_size = plan.chunk_size,
                                             !.positions = plan.positions,
                                             !.strategy = 1]
                       ELSE best
                  /\ first_min' = EarliestMin(compressed_data_2)
    /\ late_evals' = IF DeadlineOpen THEN late_evals ELSE late_evals + 1
    /\ pending' = NoPending
    /\ UNCHANGED <<prog, pc, input_data, args, iteration, outfile, restored,
                   now, consecutive_no_improvements, attempt, best_of_all,
                   first_attempt, n_evaluated, coded, tvars>>

\* The deadline has passed when a pass would begin: the best plan is
\* transformed and compressed again (with random bytes added again unless
\* best_strategy is 0) and the blob written.  An exception here is caught
\* and printed, and leaves the file that open() created empty.
find_best_chunk_strategy_75_save ==
    /\ prog = "75"
    /\ pc = "Searching"
    /\ ~pending.active
    /\ ~WhileCondition
    /\ LET reversed_data ==
               reverse_chunks_at_positions_71(input_data, best.chunk_size,
                                              best.positions)
       IN IF reversed_data.err # "none"
             THEN outfile' = None
             ELSE \E bytes \in (IF best.data # None /\ best.strategy = 0
                                   THEN {reversed_data.val}
                                   ELSE add_random_bytes(reversed_data.val)) :
                   LET c == compress_with_paq_82(
                                bytes, best.chunk_size, best.positions,
                                Len(input_data),
                                IF best.data # None /\ best.strategy = 0
                                    THEN 0 ELSE 1)
                   IN \E n \in CoderSizes(c.val) : outfile' = Blob(c.val, n)
    /\ pc' = "Done"
    /\ UNCHANGED <<prog, input_data, args, iteration, best, restored, now,
                   pending, consecutive_no_improvements, attempt, best_of_all,
                   first_attempt, first_min, n_evaluated, late_evals, coded,
                   tvars>>

\* ---- the attempts of Black_Hole_94's main
\* len(paq.compress(container)) once more: the coder is a function, so a
\* container it has coded before comes out at the same size.
CoderSizesAgain(container) ==
    IF \E b \in coded : b.data = container
        THEN {b.size : b \in {x \in coded : x.data = container}}
    ELSE 1..MaxBlob

\* main starts an attempt: process_large_file reads the file and
\* find_best_iteration compresses the baseline, which becomes the best of the
\* attempt (ZeroDivisionError on an empty file).
main_94_attempt_baseline ==
    /\ prog = "94"
    /\ pc = "Idle"
    /\ attempt < args.num_attempts
    /\ LET c == compress_data_94(input_data, args.chunk_size, <<>>,
                                 Len(input_data), 0)
       IN \E size \in CoderSizesAgain(c.val) :
            LET best_result == Blob(c.val, size)
            IN /\ best' = [NoBest EXCEPT !.size = size, !.data = best_result,
                                         !.chunk_size = args.chunk_size]
               /\ first_min' = EarliestMin(best_result)
               /\ coded' = coded \cup {best_result}
               /\ pc' = IF Len(input_data) = 0 THEN "Raised" ELSE "Searching"
    /\ UNCHANGED <<prog, input_data, args, iteration, outfile, restored, now,
                   pending, consecutive_no_improvements, attempt, best_of_all,
                   first_attempt, n_evaluated, late_evals, tvars>>

\* One pass of the loop of find_best_iteration within an attempt.
main_94_attempt_iter ==
    /\ prog = "94"
    /\ pc = "Searching"
    /\ MoreIterations
    /\ \E cv \in CalculusValues,
          num_pos \in 0..Min(Len(input_data) \div args.chunk_size, MAX_POSITIONS) :
        \E pos \in SortedSamples(Len(input_data) \div args.chunk_size, num_pos) :
            LET transformed == apply_calculus(input_data, cv)
                reversed_data == reverse_chunks_94(transformed, args.chunk_size, pos)
                c == compress_data_94(reversed_data.val, args.chunk_size, pos,
                                      Len(input_data), cv)
            IN \E comp_size \in CoderSizesAgain(c.val) :
                LET compressed == Blob(c.val, comp_size)
                IN /\ best' = IF Improves(comp_size, best.size)
                                  THEN [best EXCEPT !.size = comp_size,
                                                    !.data = compressed]
                                  ELSE best
                   /\ Evaluated(compressed)
                   /\ coded' = coded \cup {compressed}
    /\ iteration' = iteration + 1
    /\ UNCHANGED <<prog, pc, input_data, args, outfile, restored, now, pending,
                   consecutive_no_improvements, attempt, best_of_all,
                   first_attempt, late_evals, tvars>>

\* The loop of the attempt is exhausted: find_best_iteration returns
\* best_data, process_large_file writes it to the output file (it is never
\* empty), and main goes to the next attempt or ends.
main_94_attempt_write ==
    /\ prog = "94"
    /\ pc = "Searching"
    /\ ~MoreIterations
    /\ outfile' = IF best.data # None THEN best.data ELSE outfile
    /\ attempt' = attempt + 1
    /\ iteration' = 0
    /\ pc' = IF attempt + 1 < args.num_attempts THEN "Idle" ELSE "Done"
    /\ UNCHANGED <<prog, input_data, args, best, restored, now, pending,
                   consecutive_no_improvements, best_of_all, first_attempt,
                   first_min, n_evaluated, late_evals, coded, tvars>>

\* ---- compress_with_iterations of Black_Hole_93
\* best_compressed = zlib_wrapper.compress(data): the baseline blob of the
\* untransformed file (main calls the function on a non-empty file only).
compress_with_iterations_93_baseline ==
    /\ prog = "93"
    /\ pc = "Idle"
    /\ \E size \in CoderSizesAgain(input_data) :
        LET best_compressed == Blob(input_data, size)
        IN /\ best_of_all' = best_compressed
           /\ first_min' = EarliestMin(best_compressed)
           /\ coded' = coded \cup {best_compressed}
    /\ pc' = "Attempts"
    /\ UNCHANGED <<prog, input_data, args, iteration, best, outfile, restored,
                   now, pending, consecutive_no_improvements, attempt,
                   first_attempt, n_evaluated, late_evals, tvars>>

\* An attempt begins: current_data = data, best_this_attempt = best_compressed.
compress_with_iterations_93_attempt ==
    /\ prog = "93"
    /\ pc = "Attempts"
    /\ attempt < args.num_attempts
    /\ data' = input_data
    /\ best' = [NoBest EXCEPT !.size = best_of_all.size, !.data = best_of_all]
    /\ iteration' = 0
    /\ pc' = "Searching"
    /\ UNCHANGED <<prog, input_data, args, outfile, restored, now, pending,
                   consecutive_no_improvements, attempt, best_of_all,
                   first_attempt, first_min, n_evaluated, late_evals, coded,
                   op, chunk_size, positions, original_size, calculus_value,
                   stage, buf>>

\* One iteration: the current data transformed and compressed, the blob kept
\* when it is strictly smaller than the best of the attempt, and the best of
\* the attempt decompressed into the current data of the next iteration.
compress_with_iterations_93_iter ==
    /\ prog = "93"
    /\ pc = "Searching"
    /\ MoreIterations
    /\ \E transformed \in apply_random_transformations(data) :
        \E size \in CoderSizesAgain(transformed) :
            LET compressed == Blob(transformed, size)
                best_this_attempt == IF size < best.data.size THEN compressed
                                     ELSE best.data
            IN /\ best' = [best EXCEPT !.size = best_this_attempt.size,
                                       !.data = best_this_attempt]
               /\ data' = paq_decompress(best_this_attempt)
               /\ Evaluated(compressed)
               /\ coded' = coded \cup {compressed}
    /\ iteration' = iteration + 1
    /\ UNCHANGED <<prog, pc, input_data, args, outfile, restored, now, pending,
                   consecutive_no_improvements, attempt, best_of_all,
                   first_attempt, late_evals, op, chunk_size, positions,
                   original_size, calculus_value, stage, buf>>

\* The iterations of the attempt are over: its best replaces best_compressed
\* when it is strictly smaller than best_size.
compress_with_iterations_93_attempt_end ==
    /\ prog = "93"
    /\ pc = "Searching"
    /\ ~MoreIterations
    /\ best_of_all' = IF best.data.size < best_of_all.size THEN best.data
                      ELSE best_of_all
    /\ attempt' = attempt + 1
    /\ pc' = "Attempts"
    /\ UNCHANGED <<prog, input_data, args, iteration, best, outfile, restored,
                   now, pending, consecutive_no_improvements, first_attempt,
                   first_min, n_evaluated, late_evals, coded, tvars>>

\* return best_compressed, which main writes to the output file.
compress_with_iterations_93_return ==
    /\ prog = "93"
    /\ pc = "Attempts"
    /\ attempt >= args.num_attempts
    /\ outfile' = best_of_all
    /\ pc' = "Done"
    /\ UNCHANGED <<prog, input_data, args, iteration, best, restored, now,
                   pending, consecutive_no_improvements, attempt, best_of_all,
                   first_attempt, first_min, n_evaluated, late_evals, coded,
                   tvars>>

\* Extraction: main hands the bytes of the compressed file to decompress_data
\* and writes what it returns.
decompress_data_93_file ==
    /\ prog = "93"
    /\ pc = "Done"
    /\ restored' = Ok(paq_decompress(outfile))
    /\ pc' = "Restored"
    /\ UNCHANGED <<prog, input_data, args, iteration, best, outfile, now,
                   pending, consecutive_no_improvements, attempt, best_of_all,
                   first_attempt, first_min, n_evaluated, late_evals, coded,
                   tvars>>

\* ---- process_large_file of Black_Hole_90
\* The outputs of paq.compress in the model: the non-empty byte strings of up
\* to MaxLen bytes (the coder is an external library).
CoderBytes == Payloads \ {<<>>}

\* Compress mode: compress_data codes the file and changes the result, and
\* the file written is that result followed by last_byte.  data records the
\* bytes paq.compress returned, outfile the bytes of the file written.
process_large_file_90_compress ==
    /\ prog = "90"
    /\ pc = "Idle"
    /\ \E compressed \in CoderBytes, extra_byte \in ByteVals :
        LET c == compress_data_90(compressed, extra_byte)
            written == c.compressed_data \o <<c.last_byte>>
        IN /\ data' = compressed
           /\ outfile' = Blob(written, Len(written))
    /\ pc' = "Done"
    /\ UNCHANGED <<prog, input_data, args, iteration, best, restored, now,
                   pending, consecutive_no_improvements, attempt, best_of_all,
                   first_attempt, first_min, n_evaluated, late_evals, coded,
                   op, chunk_size, positions, original_size, calculus_value,
                   stage, buf>>

\* Decompress mode on the file written: the last byte of the file is taken
\* off as last_byte and decompress_data hands its bytes (buf) to
\* paq.decompress, which returns the file it coded when it is given the bytes
\* paq.compress returned; given other bytes it raises (the exception is
\* printed and no file written) or returns some bytes.
process_large_file_90_decompress ==
    /\ prog = "90"
    /\ pc = "Done"
    /\ LET compressed_data == outfile.data
           last_byte == compressed_data[Len(compressed_data)]
           handed == decompress_data_90(
                         SubSeq(compressed_data, 1, Len(compressed_data) - 1),
                         last_byte)
       IN /\ buf' = Ok(handed)
          /\ \E r \in IF handed = data THEN {Ok(input_data)}
                      ELSE {Raise("paq")} \cup {Ok(p) : p \in SearchPayloads} :
                /\ restored' = r
                /\ pc' = IF r.err = "none" THEN "Restored" ELSE "Raised"
    /\ UNCHANGED <<prog, input_data, args, iteration, best, outfile, now,
                   pending, consecutive_no_improvements, attempt, best_of_all,
                   first_attempt, first_min, n_evaluated, late_evals, coded,
                   op, data, chunk_size, positions, original_size,
                   calculus_value, stage>>

\* ---- find_best_chunk_strategy of Black_Hole_70
\* random.randint(1, 64) for num_reversals: two of the values.
NumReversals70 == {1, 2}

\* The largest num_sets: random.randint(1, min(file_size, 64)).
MaxSets70 == 64

\* The positions the rounds of reverse_chunks_in_memory draw: every round
\* random.sample(range(total_chunks), min(num_sets, total_chunks)), taken in
\* increasing order (a round reverses the same chunks in any order), and no
\* draw at all when there is a single chunk.
Rounds70(total_chunks, num_reversals, num_sets) ==
    IF total_chunks > 1
        THEN [1..num_reversals ->
                 SortedSamples(total_chunks, Min(num_sets, total_chunks))]
    ELSE {<<>>}

\* One iteration of find_best_chunk_strategy: num_reversals and num_sets are
\* drawn (ValueError on an empty file: the function prints it and returns
\* False), the chunks reversed, and compress_with_paq writes the compressed
\* file anew; the best ratio is kept for the report.
find_best_chunk_strategy_70_iter ==
    /\ prog = "70"
    /\ pc \in {"Idle", "Searching"}
    /\ MoreIterations
    /\ IF Len(input_data) = 0
        THEN /\ pc' = "Raised"
             /\ UNCHANGED <<iteration, best, outfile>>
        ELSE /\ \E num_reversals \in NumReversals70,
                   num_sets \in 1..Min(Len(input_data), MaxSets70) :
                \E rounds \in Rounds70(CeilDiv(Len(input_data), ChunkSize70),
                                       num_reversals, num_sets) :
                    LET reversed_data == reverse_chunks_in_memory_70(
                                             input_data, ChunkSize70, rounds)
                        container == compress_with_paq_70(
                                         reversed_data.val, num_reversals,
                                         num_sets, Len(input_data))
                    IN \E compressed_size \in 1..MaxBlob :
                        /\ outfile' = Blob(container, compressed_size)
                        /\ best' = IF best.size = 0 \/ compressed_size < best.size
                                       THEN [best EXCEPT !.size = compressed_size]
                                   ELSE best
             /\ iteration' = iteration + 1
             /\ pc' = "Searching"
    /\ UNCHANGED <<prog, input_data, args, restored, now, pending,
                   consecutive_no_improvements, attempt, best_of_all,
                   first_attempt, first_min, n_evaluated, late_evals, coded,
                   tvars>>

\* The iterations are over: find_best_chunk_strategy reports and returns.
find_best_chunk_strategy_70_return ==
    /\ prog = "70"
    /\ pc = "Searching"
    /\ ~MoreIterations
    /\ pc' = "Done"
    /\ UNCHANGED <<prog, input_data, args, iteration, best, outfile, restored,
                   now, pending, consecutive_no_improvements, attempt,
                   best_of_all, first_attempt, first_min, n_evaluated,
                   late_evals, coded, tvars>>

\* Extraction of the compressed file: decompress_and_restore_paq reads the
\* four fields, runs reverse_chunks_in_memory on the rest with positions drawn
\* anew, and writes the first original_size bytes; an exception is printed
\* and nothing written.
decompress_and_restore_paq_70_file ==
    /\ prog = "70"
    /\ pc = "Done"
    /\ LET decompressed_data == paq_decompress(outfile)
           m == decompress_and_restore_paq_70_header(decompressed_data)
       IN IF m.err # "none" THEN restored' = m
          ELSE IF m.val.chunk_size = 0 THEN restored' = Raise("ValueError")
          ELSE LET stored == SliceFrom(decompressed_data, 20)
               IN \E rounds \in Rounds70(CeilDiv(Len(stored), m.val.chunk_size),
                                         m.val.num_reversals, m.val.num_sets) :
                    LET restored_data == reverse_chunks_in_memory_70(
                                             stored, m.val.chunk_size, rounds)
                    IN restored' =
                        IF restored_data.err # "none" THEN Raise("TypeError")
                        ELSE Ok(Slice(restored_data.val, 0, m.val.original_size))
    /\ pc' = "Restored"
    /\ UNCHANGED <<prog, input_data, args, iteration, best, outfile, now,
                   pending, consecutive_no_improvements, attempt, best_of_all,
                   first_attempt, first_min, n_evaluated, late_evals, coded,
                   tvars>>

\* ---- the entropy coder fails
\* paq.compress raises on a candidate of Black_Hole_58 or Black_Hole_59:
\* compress_with_paq catches the exception, prints it and returns False
\* before it opens the compressed file; the for loop goes on with the next
\* chunk size.
find_best_chunk_strategy_58_coder_error ==
    /\ prog \in {"58", "59"}
    /\ pc = "Searching"
    /\ pending.active \/ WhileCondition
    /\ LET todo == IF pending.active THEN pending.todo
                   ELSE ChunkSizeRange(Len(input_data))
           began == IF pending.active THEN pending.began ELSE now
       IN /\ todo # <<>>
          /\ MaxPositionsOf(Len(input_data), Head(todo)) > 0
          /\ pending' = IF Tail(todo) = <<>> THEN NoPending
                        ELSE [active |-> TRUE, began |-> began,
                              todo |-> Tail(todo)]
    /\ late_evals' = IF DeadlineOpen THEN late_evals ELSE late_evals + 1
    /\ UNCHANGED <<prog, pc, input_data, args, iteration, best, outfile,
                   restored, now, consecutive_no_improvements, attempt,
                   best_of_all, first_attempt, first_min, n_evaluated, coded, tvars>>

\* paq.compress raises on a candidate of Black_Hole_71 or Black_Hole_73.1:
\* neither compress_with_paq nor the loop of find_best_chunk_strategy has a
\* try, so the exception leaves the search; nothing is written.
find_best_chunk_strategy_71_coder_error ==
    /\ prog \in {"71", "73.1"}
    /\ pc = "Searching"
    /\ WhileCondition
    /\ ~PassRaises71
    /\ pc' = "Raised"
    /\ UNCHANGED <<prog, input_data, args, iteration, best, outfile, restored,
                   now, pending, consecutive_no_improvements, attempt,
                   best_of_all, first_attempt, first_min, n_evaluated,
                   late_evals, coded, tvars>>

\* ---- the search specifications
\* The arguments of the search call of a program; those it does not take are 0.
Args(p) ==
    CASE p = "94" ->
            [max_iterations : 0..MaxIter, chunk_size : ChunkSizes94,
             num_attempts : {1}, max_time : {0}, max_no_improve : {0}]
      [] p \in {"82", "78", "86"} ->
            [max_iterations : 0..MaxIter, chunk_size : {0},
             num_attempts : 0..MaxAttempts, max_time : {0},
             max_no_improve : {0}]
      [] p = "64" ->
            [max_iterations : {0}, chunk_size : {0}, num_attempts : {1},
             max_time : {0}, max_no_improve : {0}]
      [] p = "71" ->
            [max_iterations : {0}, chunk_size : {0}, num_attempts : {1},
             max_time : 0..MaxTime, max_no_improve : 0..MaxNoImprove]
      [] p = "73.1" ->
            [max_iterations : {0}, chunk_size : {0}, num_attempts : {1},
             max_time : {0}, max_no_improve : 0..MaxNoImprove]
      [] p \in {"75", "58", "59"} ->
            [max_iterations : {0}, chunk_size : {0}, num_attempts : {1},
             max_time : 0..MaxTime, max_no_improve : {0}]
      [] p = "90" ->
            [max_iterations : {0}, chunk_size : {0}, num_attempts : {1},
             max_time : {0}, max_no_improve : {0}]
      [] p = "70" ->
            [max_iterations : 1..MaxIter, chunk_size : {0}, num_attempts : {1},
             max_time : {0}, max_no_improve : {0}]

\* The input files of a program.  The chunk sizes of Black_Hole_58 and
\* Black_Hole_59 start at 64: their files are the sizes at which the number
\* of candidates of a pass changes.
Inputs(p) ==
    CASE p = "58" -> {FileBytes(n) : n \in {0, 1153}}
      [] p = "59" -> {FileBytes(n) : n \in {0, 64, 128}}
      [] p = "70" -> {FileBytes(n) : n \in 0..(MaxFile + 1)}
      [] OTHER -> SearchPayloads

\* The state before the search call of one of the programs of P.
SearchInit(P) ==
    /\ prog \in P
    /\ pc = "Idle"
    /\ input_data \in Inputs(prog)
    /\ args \in Args(prog)
    /\ iteration = 0
    /\ best = NoBest
    /\ outfile = None
    /\ restored = Ok(<<>>)
    /\ now = 0
    /\ pending = NoPending
    /\ consecutive_no_improvements = 0
    /\ attempt = 0
    /\ best_of_all = None
    /\ first_attempt = TRUE
    /\ first_min = None
    /\ n_evaluated = 0
    /\ late_evals = 0
    /\ coded = {}
    /\ op = "none"
    /\ data = <<>>
    /\ chunk_size = 1
    /\ positions = <<>>
    /\ original_size = 0
    /\ calculus_value = 0
    /\ stage = "input"
    /\ buf = Ok(<<>>)

Next94 ==
    \/ find_best_iteration_94_baseline
    \/ find_best_iteration_94_iter
    \/ find_best_iteration_94_return
    \/ process_large_file_94_decompress

NextAttempts ==
    \/ run_compression_attempt
    \/ find_best_iteration_82_iter
    \/ find_best_iteration_82_raise
    \/ find_best_iteration_82_return
    \/ run_compression_save

Next64 == find_best_chunk_strategy_start \/ find_best_chunk_strategy_64_iter

Next71 ==
    \/ find_best_chunk_strategy_start
    \/ Tick
    \/ find_best_chunk_strategy_71_iter
    \/ find_best_chunk_strategy_71_raise
    \/ find_best_chunk_strategy_71_save

Next731 ==
    \/ find_best_chunk_strategy_start
    \/ find_best_chunk_strategy_71_iter
    \/ find_best_chunk_strategy_71_raise
    \/ find_best_chunk_strategy_71_save

Next78 ==
    \/ run_compression_attempt
    \/ find_best_iteration_78_iter
    \/ find_best_iteration_82_raise
    \/ find_best_iteration_82_return
    \/ run_compression_save

Next58 ==
    \/ find_best_chunk_strategy_start
    \/ Tick
    \/ find_best_chunk_strategy_58_pass
    \/ find_best_chunk_strategy_58_return

Next75 ==
    \/ find_best_chunk_strategy_start
    \/ Tick
    \/ find_best_chunk_strategy_75_first
    \/ find_best_chunk_strategy_75_raise
    \/ find_best_chunk_strategy_75_second
    \/ find_best_chunk_strategy_75_save

\* Black_Hole_94: search, write, restore.
Init94 == SearchInit({"94"})
Spec94 == Init94 /\ [][Next94]_vars

\* The counted searches: Black_Hole_94, Black_Hole_82, Black_Hole_86.
InitCounted == SearchInit({"94", "82", "86"})
NextCounted == Next94 \/ NextAttempts
SpecCounted == InitCounted /\ [][NextCounted]_vars

\* The searches that keep a best-so-far size: Black_Hole_94, Black_Hole_71,
\* Black_Hole_64.
InitLoops == SearchInit({"94", "71", "64"})
NextLoops == Next94 \/ Next71 \/ Next64
SpecLoops == InitLoops /\ [][NextLoops]_vars

\* The searches of the tie-break: Black_Hole_94, Black_Hole_78, Black_Hole_64.
InitTie == SearchInit({"94", "78", "64"})
NextTie == Next94 \/ Next78 \/ Next64
SpecTie == InitTie /\ [][NextTie]_vars

\* The searches with a deadline: Black_Hole_58, Black_Hole_59, Black_Hole_75.
InitTimed == SearchInit({"58", "59", "75"})
NextTimed == Next58 \/ Next75
SpecTimed == InitTimed /\ [][NextTimed]_vars

\* The searches of Black_Hole_59 and Black_Hole_71 with a coder that can fail.
InitCoderError == SearchInit({"59", "71"})
NextCoderError ==
    \/ Next58
    \/ Next71
    \/ find_best_chunk_strategy_58_coder_error
    \/ find_best_chunk_strategy_71_coder_error
SpecCoderError == InitCoderError /\ [][NextCoderError]_vars

\* The searches with no iteration cap and no deadline, Black_Hole_64 and
\* Black_Hole_73.1, under the fairness of a sequential program: it takes its
\* next step whenever it has one.
InitForever == SearchInit({"64", "73.1"})
NextForever == Next64 \/ Next731
FairSpecForever == InitForever /\ [][NextForever]_vars /\ WF_vars(NextForever)

\* The programs that make several attempts: main of Black_Hole_94 (attempts
\* and iterations at least 1, the chunk size 2**(2**n)) and run_compression
\* of Black_Hole_82.
InitAttempts94 ==
    /\ prog = "94"
    /\ pc = "Idle"
    /\ input_data \in SearchPayloads
    /\ args \in [max_iterations : 1..MaxIter, chunk_size : {4},
                 num_attempts : 1..MaxAttempts, max_time : {0},
                 max_no_improve : {0}]
    /\ iteration = 0
    /\ best = NoBest
    /\ outfile = None
    /\ restored = Ok(<<>>)
    /\ now = 0
    /\ pending = NoPending
    /\ consecutive_no_improvements = 0
    /\ attempt = 0
    /\ best_of_all = None
    /\ first_attempt = TRUE
    /\ first_min = None
    /\ n_evaluated = 0
    /\ late_evals = 0
    /\ coded = {}
    /\ op = "none"
    /\ data = <<>>
    /\ chunk_size = 1
    /\ positions = <<>>
    /\ original_size = 0
    /\ calculus_value = 0
    /\ stage = "input"
    /\ buf = Ok(<<>>)

InitAttempts == InitAttempts94 \/ SearchInit({"82"})
NextAttempts94 ==
    \/ main_94_attempt_baseline
    \/ main_94_attempt_iter
    \/ main_94_attempt_write
SpecAttempts == InitAttempts /\ [][NextAttempts94 \/ NextAttempts]_vars

\* compress_with_iterations of Black_Hole_93 and the extraction of its blob:
\* main asks for positive numbers of attempts and iterations and compresses a
\* non-empty file.
InitIterations93 ==
    /\ prog = "93"
    /\ pc = "Idle"
    /\ input_data \in SearchPayloads \ {<<>>}
    /\ args \in [max_iterations : 1..MaxIter, chunk_size : {0},
                 num_attempts : 1..MaxAttempts, max_time : {0},
                 max_no_improve : {0}]
    /\ iteration = 0
    /\ best = NoBest
    /\ outfile = None
    /\ restored = Ok(<<>>)
    /\ now = 0
    /\ pending = NoPending
    /\ consecutive_no_improvements = 0
    /\ attempt = 0
    /\ best_of_all = None
    /\ first_attempt = TRUE
    /\ first_min = None
    /\ n_evaluated = 0
    /\ late_evals = 0
    /\ coded = {}
    /\ op = "none"
    /\ data = <<>>
    /\ chunk_size = 1
    /\ positions = <<>>
    /\ original_size = 0
    /\ calculus_value = 0
    /\ stage = "input"
    /\ buf = Ok(<<>>)

NextIterations93 ==
    \/ compress_with_iterations_93_baseline
    \/ compress_with_iterations_93_attempt
    \/ compress_with_iterations_93_iter
    \/ compress_with_iterations_93_attempt_end
    \/ compress_with_iterations_93_return
    \/ decompress_data_93_file
SpecIterations93 == InitIterations93 /\ [][NextIterations93]_vars

\* Compression and decompression of a file by Black_Hole_90.
InitFile90 == SearchInit({"90"})
NextFile90 ==
    \/ process_large_file_90_compress
    \/ process_large_file_90_decompress
SpecFile90 == InitFile90 /\ [][NextFile90]_vars

\* Compression and extraction of a file by Black_Hole_70.
InitRestore70 == SearchInit({"70"})
NextRestore70 ==
    \/ find_best_chunk_strategy_70_iter
    \/ find_best_chunk_strategy_70_return
    \/ decompress_and_restore_paq_70_file
SpecRestore70 == InitRestore70 /\ [][NextRestore70]_vars

\* Compression and decompression of Black_Hole_78.
InitRestore78 == SearchInit({"78"})
NextRestore78 == Next78 \/ decompress_and_restore_paq_78_file
SpecRestore78 == InitRestore78 /\ [][NextRestore78]_vars

\* ------------------------------------------------------------ the decoders
DecodeOps == {"decode_64", "decode_94", "decode_86"}

\* The length of the fixed part of the header of the program's container.
HeaderLength ==
    CASE op = "decode_64" -> 16
      [] op = "decode_94" -> 14
      [] OTHER -> 9

\* Position lists of the decoder specification: short lists, and the lists
\* of 64 and of 65 positions.
DecodePositions ==
    SeqsUpTo({0, 1, 258}, MaxPositions)
        \cup {[k \in 1..64 |-> k - 1], [k \in 1..65 |-> k - 1]}

\* The container the compressor of the program builds for the plan.
EncodeContainer ==
    CASE op = "decode_64" ->
            compress_with_paq_64(data, chunk_size, positions, original_size)
      [] op = "decode_94" ->
            compress_data_94(data, chunk_size, positions, original_size,
                             calculus_value)
      [] OTHER -> compress_data_86(data, chunk_size, positions, original_size)

\* The lengths to which the decoder specification cuts a container of length
\* n: nothing, the header short of a byte, the header alone, the positions
\* short of a byte, the positions without the payload, and the whole.
CutLengths(n) ==
    {m \in {0, HeaderLength - 1, HeaderLength,
            HeaderLength + (4 * Len(positions)) - 1,
            HeaderLength + (4 * Len(positions)), n} : m <= n}

DecodeInit ==
    /\ prog = "none"
    /\ pc = "Idle"
    /\ input_data = <<>>
    /\ args = [max_iterations |-> 0, chunk_size |-> 0, num_attempts |-> 0,
               max_time |-> 0, max_no_improve |-> 0]
    /\ iteration = 0
    /\ best = NoBest
    /\ outfile = None
    /\ restored = Ok(<<>>)
    /\ now = 0
    /\ pending = NoPending
    /\ consecutive_no_improvements = 0
    /\ attempt = 0
    /\ best_of_all = None
    /\ first_attempt = TRUE
    /\ first_min = None
    /\ n_evaluated = 0
    /\ late_evals = 0
    /\ coded = {}
    /\ op \in DecodeOps
    /\ data \in CodecPayloads
    /\ chunk_size \in 0..MaxChunk
    /\ positions \in DecodePositions
    /\ original_size = Len(data)
    /\ calculus_value \in IF op = "decode_94" THEN {0, 255} ELSE {0}
    /\ stage = "input"
    /\ buf = Ok(<<>>)

\* A container reaches the decoder: the one the compressor built, whole or
\* cut short (input_data: the bytes paq.decompress returns).
store_container ==
    /\ op \in DecodeOps
    /\ stage = "input"
    /\ EncodeContainer.err = "none"
    /\ \E m \in CutLengths(Len(EncodeContainer.val)) :
        input_data' = Slice(EncodeContainer.val, 0, m)
    /\ stage' = "stored"
    /\ UNCHANGED <<op, data, chunk_size, positions, original_size,
                   calculus_value, buf, prog, pc, args, iteration, best,
                   outfile, restored, now, pending,
                   consecutive_no_improvements, attempt, best_of_all,
                   first_attempt, first_min, n_evaluated, late_evals, coded>>

\* The decoder of the program on the container.  Whether the compressed file
\* of Black_Hole_64 begins with 00 63 00 is the coder's doing: either.
decode_container ==
    /\ op \in DecodeOps
    /\ stage = "stored"
    /\ \/ /\ op = "decode_64"
          /\ \E header_ok \in BOOLEAN :
                buf' = decompress_and_restore_paq_64(header_ok, input_data)
       \/ /\ op = "decode_94"
          /\ buf' = decompress_data_94(input_data)
       \/ /\ op = "decode_86"
          /\ buf' = decompress_data_86(input_data)
    /\ stage' = "decoded"
    /\ UNCHANGED <<op, data, chunk_size, positions, original_size,
                   calculus_value, svars>>

DecodeNext == store_container \/ decode_container

SpecDecode == DecodeInit /\ [][DecodeNext]_vars

\* ---------------------------------------------- extraction, Black_Hole_93
\* The files given to the extraction: any bytes.
ExtractFiles == Payloads

\* zlib_wrapper.decompress(data), that is paq.decompress: the payload a valid
\* blob encodes, or the coder's exception on bytes that are no blob.  The
\* coder is an external library: either outcome, and any payload.
DecoderOutcomes == {Ok(p) : p \in Payloads} \cup {Raise("paq.error")}

ExtractInit ==
    /\ prog = "93"
    /\ pc \in {"Idle", "NoFile"}
    /\ input_data \in ExtractFiles
    /\ args = [max_iterations |-> 0, chunk_size |-> 0, num_attempts |-> 0,
               max_time |-> 0, max_no_improve |-> 0]
    /\ iteration = 0
    /\ best = NoBest
    /\ outfile = None
    /\ restored = Ok(<<>>)
    /\ now = 0
    /\ pending = NoPending
    /\ consecutive_no_improvements = 0
    /\ attempt = 0
    /\ best_of_all = None
    /\ first_attempt = TRUE
    /\ first_min = None
    /\ n_evaluated = 0
    /\ late_evals = 0
    /\ coded = {}
    /\ op = "none"
    /\ data = <<>>
    /\ chunk_size = 1
    /\ positions = <<>>
    /\ original_size = 0
    /\ calculus_value = 0
    /\ stage = "input"
    /\ buf = Ok(<<>>)

\* main, choice '2': data = handle_file_io(decompress_data, in_file).
\* decompress_data returns what the coder returns, or, when the coder raises,
\* prints the error and returns its argument.  restored: the outcome of the
\* coder; buf: what handle_file_io returns.
handle_file_io_decompress_93 ==
    /\ prog = "93"
    /\ pc = "Idle"
    /\ \E r \in DecoderOutcomes :
        /\ restored' = r
        /\ buf' = IF r.err = "none" THEN r ELSE Ok(input_data)
    /\ pc' = "Decoded"
    /\ UNCHANGED <<prog, input_data, args, iteration, best, outfile, now,
                   pending, consecutive_no_improvements, attempt, best_of_all,
                   first_attempt, first_min, n_evaluated, late_evals, coded,
                   op, data, chunk_size, positions, original_size,
                   calculus_value, stage>>

\* The input file does not exist: handle_file_io prints and returns None.
handle_file_io_missing_93 ==
    /\ prog = "93"
    /\ pc = "NoFile"
    /\ restored' = Raise("FileNotFoundError")
    /\ buf' = Raise("FileNotFoundError")
    /\ pc' = "Decoded"
    /\ UNCHANGED <<prog, input_data, args, iteration, best, outfile, now,
                   pending, consecutive_no_improvements, attempt, best_of_all,
                   first_attempt, first_min, n_evaluated, late_evals, coded,
                   op, data, chunk_size, positions, original_size,
                   calculus_value, stage>>

\* main: if data: handle_file_io(lambda x: x, out_file, data).  None and the
\* empty bytes are false: no output file.
main_extract_write_93 ==
    /\ prog = "93"
    /\ pc = "Decoded"
    /\ outfile' = IF buf.err = "none" /\ buf.val # <<>>
                     THEN Blob(buf.val, Len(buf.val)) ELSE None
    /\ pc' = "Done"
    /\ UNCHANGED <<prog, input_data, args, iteration, best, restored, now,
                   pending, consecutive_no_improvements, attempt, best_of_all,
                   first_attempt, first_min, n_evaluated, late_evals, coded, tvars>>

ExtractNext ==
    \/ handle_file_io_decompress_93
    \/ handle_file_io_missing_93
    \/ main_extract_write_93

SpecExtract == ExtractInit /\ [][ExtractNext]_vars

\* ------------------------------------------------------- the round trips
\* Compress (transform, then container) and decompress (container, inverse
\* transform, trim) of one program on a payload and a plan.
RoundTripProgs == {"1.5.1", "1.5.2", "71", "94"}

\* Chunk sizes of the round trips: 0, the small sizes, and 4.
RoundTripChunkSizes == (0..MaxChunk) \cup {4}

\* The plans of a program: Black_Hole_1.5.1 reverses the first num_chunks
\* chunks, the others the chunks of a list of positions.
RoundTripPositions(p) ==
    IF p = "1.5.1" THEN {FirstChunks(n) : n \in 0..(MaxLen + 1)}
    ELSE TransformPositions

RoundTripInit ==
    /\ prog \in RoundTripProgs
    /\ pc = "Idle"
    /\ input_data = <<>>
    /\ args = [max_iterations |-> 0, chunk_size |-> 0, num_attempts |-> 0,
               max_time |-> 0, max_no_improve |-> 0]
    /\ iteration = 0
    /\ best = NoBest
    /\ outfile = None
    /\ restored = Ok(<<>>)
    /\ now = 0
    /\ pending = NoPending
    /\ consecutive_no_improvements = 0
    /\ attempt = 0
    /\ best_of_all = None
    /\ first_attempt = TRUE
    /\ first_min = None
    /\ n_evaluated = 0
    /\ late_evals = 0
    /\ coded = {}
    /\ op = "roundtrip"
    /\ data \in Payloads
    /\ chunk_size \in RoundTripChunkSizes
    /\ positions \in RoundTripPositions(prog)
    /\ original_size = Len(data)
    /\ calculus_value \in IF prog = "94" THEN {0, 258} ELSE {0}
    /\ stage = "input"
    /\ buf = Ok(<<>>)

\* The transform of the program on the payload (Black_Hole_94: after
\* apply_calculus).
roundtrip_apply ==
    /\ op = "roundtrip"
    /\ stage = "input"
    /\ buf' = CASE prog = "1.5.1" ->
                     reverse_and_save_151(data, chunk_size, Len(positions))
                [] prog = "1.5.2" ->
                     reverse_chunks_at_positions_152(data, chunk_size, positions)
                [] prog = "71" ->
                     reverse_chunks_at_positions_71(data, chunk_size, positions)
                [] OTHER ->
                     reverse_chunks_94(apply_calculus(data, calculus_value),
                                       chunk_size, positions)
    /\ stage' = "applied"
    /\ UNCHANGED <<op, data, chunk_size, positions, original_size,
                   calculus_value, svars>>

\* The container of the program around the transformed payload.
roundtrip_encode ==
    /\ op = "roundtrip"
    /\ stage = "applied"
    /\ buf.err = "none"
    /\ buf' = CASE prog = "1.5.1" ->
                     compress_reversed_with_zstd_151(buf.val, chunk_size,
                                                     Len(positions))
                [] prog = "1.5.2" ->
                     compress_with_zstd_152(buf.val, chunk_size, positions,
                                            original_size)
                [] prog = "71" ->
                     compress_with_paq_71(buf.val, chunk_size, positions,
                                          original_size)
                [] OTHER ->
                     compress_data_94(buf.val, chunk_size, positions,
                                      original_size, calculus_value)
    /\ stage' = "encoded"
    /\ UNCHANGED <<op, data, chunk_size, positions, original_size,
                   calculus_value, svars>>

\* The decoder of the program on the container.
roundtrip_decode ==
    /\ op = "roundtrip"
    /\ stage = "encoded"
    /\ buf.err = "none"
    /\ buf' = CASE prog = "1.5.1" -> decompress_and_restore_with_zstd_151(buf.val)
                [] prog = "1.5.2" -> decompress_and_restore_152(buf.val)
                [] prog = "71" -> decompress_and_restore_paq_71(buf.val)
                [] OTHER -> decompress_data_94(buf.val)
    /\ stage' = "decoded"
    /\ UNCHANGED <<op, data, chunk_size, positions, original_size,
                   calculus_value, svars>>

RoundTripNext == roundtrip_apply \/ roundtrip_encode \/ roundtrip_decode

SpecRoundTrip == RoundTripInit /\ [][RoundTripNext]_vars

\* ------------------------------------------------------------ the samplers
\* Largest range of chunk indices of which every sample is drawn; of a longer
\* range the model draws the first and the last indices.
MaxSampled == 3

\* random.sample(range(m), n): the lists the model draws.
SampleLists(m, n) ==
    IF m <= MaxSampled THEN Samples(m, n)
    ELSE {[k \in 1..n |-> k - 1], [k \in 1..n |-> m - k]}

\* sorted(random.sample(range(m), n)): the lists the model draws.
SortedSampleLists(m, n) ==
    IF m <= MaxSampled THEN SortedSamples(m, n)
    ELSE {[k \in 1..n |-> k - 1], [k \in 1..n |-> (m - n) + (k - 1)]}

\* File sizes of the sampler specification: the empty file, the smallest
\* files, and the sizes at which the number of chunks passes the cap of the
\* program (Black_Hole_58: 650 chunks of 64 bytes, a tenth of which is 65).
SamplerFileSizes(p) ==
    CASE p = "86" -> {0, 1, 2, 3, 256, 8320}
      [] p = "82" -> {0, 1, 2, 3, 130}
      [] p = "64" -> {0, 1, 2, 3, 65}
      [] p = "58" -> {0, 64, 640, 41537}
      [] p = "59" -> {0, 63, 64, 128, 4160, 4161}

\* A sampled plan.
Plan(size, pos) == [chunk_size |-> size, positions |-> pos]

\* Black_Hole_82, Black_Hole_86: num_positions = random.randint(0,
\* min(file_size // chunk_size, 64)), positions = sorted(random.sample(
\* range(file_size // chunk_size), num_positions)).
SortedPlans(file_size, size) ==
    UNION {{Plan(size, pos) :
                pos \in SortedSampleLists(file_size \div size, num_positions)} :
           num_positions \in 0..Min(file_size \div size, MAX_POSITIONS)}

\* Black_Hole_58, Black_Hole_59: one plan for every chunk size of the for
\* loop that has positions, max_positions of them.
PassPlans(file_size) ==
    UNION {{Plan(ChunkSizeRange(file_size)[k], pos) :
                pos \in SampleLists(
                    CeilDiv(file_size, ChunkSizeRange(file_size)[k]),
                    MaxPositionsOf(file_size, ChunkSizeRange(file_size)[k]))} :
           k \in {j \in DOMAIN ChunkSizeRange(file_size) :
                    MaxPositionsOf(file_size, ChunkSizeRange(file_size)[j]) > 0}}

\* The plans the search of the program samples for a file of file_size bytes,
\* or the exception the sampling raises: random.randint(1, 0) in
\* Black_Hole_82 (ValueError), len(input_data) // 0 in Black_Hole_86
\* (ZeroDivisionError).
sample_plan(file_size) ==
    CASE prog = "82" ->
            IF file_size = 0 THEN Raise("ValueError")
            ELSE Ok(UNION {SortedPlans(file_size, size) :
                              size \in 1..Min(256, file_size)})
      [] prog = "86" ->
            IF Min(128, file_size \div 2) = 0 THEN Raise("ZeroDivisionError")
            ELSE Ok(SortedPlans(file_size, Min(128, file_size \div 2)))
      [] prog = "64" ->
            Ok({Plan(1, SpacedPositions(file_size, positions_count)) :
                   positions_count \in 1..Min(file_size, 64)})
      [] OTHER -> Ok(PassPlans(file_size))

SamplerProgs == {"86", "82", "64", "58", "59"}

SamplerInit ==
    /\ prog \in SamplerProgs
    /\ pc = "Idle"
    /\ input_data = <<>>
    /\ args = [max_iterations |-> 0, chunk_size |-> 0, num_attempts |-> 0,
               max_time |-> 0, max_no_improve |-> 0]
    /\ iteration = 0
    /\ best = NoBest
    /\ outfile = None
    /\ restored = Ok(<<>>)
    /\ now = 0
    /\ pending = NoPending
    /\ consecutive_no_improvements = 0
    /\ attempt = 0
    /\ best_of_all = None
    /\ first_attempt = TRUE
    /\ first_min = None
    /\ n_evaluated = 0
    /\ late_evals = 0
    /\ coded = {}
    /\ op = "sampler"
    /\ data = <<>>
    /\ chunk_size = 0
    /\ positions = <<>>
    /\ original_size \in SamplerFileSizes(prog)
    /\ calculus_value = 0
    /\ stage = "input"
    /\ buf = Ok(<<>>)

\* A pass of the search samples a plan.
sampler_emit ==
    /\ op = "sampler"
    /\ stage = "input"
    /\ sample_plan(original_size).err = "none"
    /\ \E plan \in sample_plan(original_size).val :
        /\ chunk_size' = plan.chunk_size
        /\ positions' = plan.positions
    /\ stage' = "sampled"
    /\ UNCHANGED <<op, data, original_size, calculus_value, buf, svars>>

\* The sampling raises.
sampler_raise ==
    /\ op = "sampler"
    /\ stage = "input"
    /\ sample_plan(original_size).err # "none"
    /\ buf' = sample_plan(original_size)
    /\ stage' = "raised"
    /\ UNCHANGED <<op, data, chunk_size, positions, original_size,
                   calculus_value, svars>>

SamplerNext == sampler_emit \/ sampler_raise

SpecSampler == SamplerInit /\ [][SamplerNext]_vars

\* ------------------------------------------------- the container layouts
\* The programs whose container is laid out here.
LayoutProgs == {"1.5.4", "1.5.2", "71"}

\* The widths in bytes of the fields the program's compressor packs in front
\* of the payload: a magic, the original size, the chunk size, the number of
\* positions, and each position.
LayoutWidths(p) ==
    CASE p = "1.5.4" ->
            [magic |-> 0, original_size |-> 8, chunk_size |-> 4, count |-> 2,
             position |-> 4]
      [] p = "1.5.2" ->
            [magic |-> 0, original_size |-> 8, chunk_size |-> 2, count |-> 2,
             position |-> 2]
      [] OTHER ->
            [magic |-> 0, original_size |-> 4, chunk_size |-> 4, count |-> 4,
             position |-> 4]

\* Chunk sizes of the layouts: small ones, the last value of two bytes and
\* the first of three.
LayoutChunkSizes == (1..MaxChunk) \cup {65535, 65536}

\* Position lists of the layouts: values of one to four bytes around the
\* limits of a 2-byte field and of Black_Hole_1.5.4, and the list of 64.
LayoutPositions ==
    SeqsUpTo({0, 258, 65535, 65536, PositionLimit154 - 1, PositionLimit154},
             MaxPositions)
        \cup {[k \in 1..64 |-> k - 1]}

LayoutInit ==
    /\ prog \in LayoutProgs
    /\ pc = "Idle"
    /\ input_data = <<>>
    /\ args = [max_iterations |-> 0, chunk_size |-> 0, num_attempts |-> 0,
               max_time |-> 0, max_no_improve |-> 0]
    /\ iteration = 0
    /\ best = NoBest
    /\ outfile = None
    /\ restored = Ok(<<>>)
    /\ now = 0
    /\ pending = NoPending
    /\ consecutive_no_improvements = 0
    /\ attempt = 0
    /\ best_of_all = None
    /\ first_attempt = TRUE
    /\ first_min = None
    /\ n_evaluated = 0
    /\ late_evals = 0
    /\ coded = {}
    /\ op = "layout"
    /\ data \in CodecPayloads
    /\ chunk_size \in LayoutChunkSizes
    /\ positions \in LayoutPositions
    /\ original_size \in {Len(data), 70000}
    /\ calculus_value = 0
    /\ stage = "input"
    /\ buf = Ok(<<>>)

\* The compressor of the program builds the bytes it hands to the coder.
layout_encode ==
    /\ op = "layout"
    /\ stage = "input"
    /\ buf' = CASE prog = "1.5.4" ->
                     compress_with_zstd_154(data, chunk_size, positions,
                                            original_size)
                [] prog = "1.5.2" ->
                     compress_with_zstd_152(data, chunk_size, positions,
                                            original_size)
                [] OTHER ->
                     compress_with_paq_71(data, chunk_size, positions,
                                          original_size)
    /\ stage' = "encoded"
    /\ UNCHANGED <<op, data, chunk_size, positions, original_size,
                   calculus_value, svars>>

LayoutNext == layout_encode

SpecLayout == LayoutInit /\ [][LayoutNext]_vars

\* ------------------------------------------- the length of the transform
\* The transforms whose output length is looked at.
PaddingOps ==
    {"reverse_chunks_at_positions_152", "reverse_chunks_at_positions_71",
     "reverse_chunks_at_positions_82"}

PaddingInit ==
    /\ NoSearch
    /\ stage = "input"
    /\ buf = Ok(<<>>)
    /\ op \in PaddingOps
    /\ data \in Payloads
    /\ chunk_size \in 0..(MaxChunk + 1)
    /\ positions \in TransformPositions
    /\ original_size = Len(data)
    /\ calculus_value = 0

\* The transform of the program on the payload.
padding_apply ==
    /\ op \in PaddingOps
    /\ stage = "input"
    /\ buf' = CASE op = "reverse_chunks_at_positions_152" ->
                     reverse_chunks_at_positions_152(data, chunk_size, positions)
                [] op = "reverse_chunks_at_positions_71" ->
                     reverse_chunks_at_positions_71(data, chunk_size, positions)
                [] OTHER ->
                     reverse_chunks_at_positions_82(data, chunk_size, positions)
    /\ stage' = "applied"
    /\ UNCHANGED <<op, data, chunk_size, positions, original_size,
                   calculus_value, svars>>

PaddingNext == padding_apply

SpecPadding == PaddingInit /\ [][PaddingNext]_vars

\* ------------------------------------------ the bit codec, Black_Hole_55.2
\* Largest number of whole 25-bit blocks of a bit string of the model.
MaxBlocks == 2

\* The whole blocks of the model: three values of constants_map (the first,
\* one in the middle, the last), and three blocks with no code, a small
\* value, all ones, and 11111 followed by zeros.
Blocks55 ==
    {ToBits(n, BlockBits) : n \in {0, 256, 11136, 1, (2 ^ 25) - 1, 31 * (2 ^ 20)}}

\* The bits after the last whole block: every string of up to MaxLen bits,
\* and strings of 4, 5 and 24 bits.
Tails55 ==
    UNION {[1..n -> {0, 1}] : n \in 0..MaxLen}
        \cup {<<0, 0, 0, 0>>, <<1, 1, 1, 1>>, <<0, 0, 0, 0, 1>>, Escape,
              [k \in 1..(BlockBits - 1) |-> 1],
              [k \in 1..(BlockBits - 1) |-> k % 2]}

\* The bit strings of the model: up to MaxBlocks whole blocks and a tail.
BitStrings ==
    {Join(blocks) \o tail :
        blocks \in UNION {[1..n -> Blocks55] : n \in 0..MaxBlocks},
        tail \in Tails55}

BitsInit ==
    /\ NoSearch
    /\ stage = "input"
    /\ buf = Ok(<<>>)
    /\ op = "bits_55.2"
    /\ data \in BitStrings
    /\ chunk_size = 1
    /\ positions = <<>>
    /\ original_size = Len(data)
    /\ calculus_value = 0

\* compressed = compress_data(binary_data)
bits_compress ==
    /\ op = "bits_55.2"
    /\ stage = "input"
    /\ buf' = Ok(compress_data_552(data))
    /\ stage' = "encoded"
    /\ UNCHANGED <<op, data, chunk_size, positions, original_size,
                   calculus_value, svars>>

\* decompressed = decompress_data(compressed_data, orig_len)
bits_decompress ==
    /\ op = "bits_55.2"
    /\ stage = "encoded"
    /\ restored' = Ok(decompress_data_552(buf.val, original_size))
    /\ stage' = "decoded"
    /\ UNCHANGED <<prog, pc, input_data, args, iteration, best, outfile, now,
                   pending, consecutive_no_improvements, attempt, best_of_all,
                   first_attempt, first_min, n_evaluated, late_evals, coded,
                   op, data, chunk_size, positions, original_size,
                   calculus_value, buf>>

BitsNext == bits_compress \/ bits_decompress

SpecBits == BitsInit /\ [][BitsNext]_vars

\* ------------------------------------------------------------ properties
\* numChunks = ceil(N / chunkSize)
NumChunks(n, size) == CeilDiv(n, size)

\* A well-formed plan for the payload: chunkSize >= 1, the positions pairwise
\* distinct and each within [0, numChunks).
WellFormedPlan ==
    /\ chunk_size >= 1
    /\ \A j, k \in DOMAIN positions : j # k => positions[j] # positions[k]
    /\ \A k \in DOMAIN positions :
           0 <= positions[k] /\ positions[k] < NumChunks(Len(data), chunk_size)

\* C1: the chunk reversal is its own inverse.  For every payload and every
\* well-formed plan, the transform applied to the payload and applied again to
\* its own output, truncated to the payload's length, gives the payload back
\* (neither application raises).
C1_SelfInverse ==
    (op \in TransformOps /\ WellFormedPlan) =>
        /\ stage \in {"applied", "inverted", "restored"} => buf.err = "none"
        /\ stage = "restored" => buf.val = data

\* C1 on non-empty payloads only (both transforms).
C1_SelfInverseNonEmpty ==
    (op \in TransformOps /\ WellFormedPlan /\ data # <<>>) =>
        /\ stage \in {"applied", "inverted", "restored"} => buf.err = "none"
        /\ stage = "restored" => buf.val = data

\* C1's case: a padded last chunk was reversed and the payload came back.
C1_Witness ==
    /\ op = "reverse_chunks_at_positions_71"
    /\ WellFormedPlan
    /\ stage = "restored"
    /\ Len(data) % chunk_size # 0
    /\ positions # <<>>
    /\ buf.val = data

\* C3: container fidelity.  For every plan (chunkSize >= 1) with at most
\* MAX_POSITIONS positions and every transformed payload, decoding the bytes
\* that encode produced succeeds and returns the same originalSize, the same
\* chunkSize, the same positions in the same order and the same payload bytes.
C3_ContainerFidelity ==
    (op \in CodecOps /\ stage = "decoded" /\ chunk_size >= 1
        /\ Len(positions) <= MAX_POSITIONS) =>
        /\ buf.err = "none"
        /\ buf.val.original_size = original_size
        /\ buf.val.chunk_size = chunk_size
        /\ buf.val.positions = positions
        /\ buf.val.stored = data

\* C3's case: a plan with a position of more than one byte and a stored size
\* of more than two bytes went through encode and decode of Black_Hole_1.5.4.
C3_Witness ==
    /\ op = "codec_154"
    /\ stage = "decoded"
    /\ chunk_size >= 1
    /\ Len(positions) = 2
    /\ positions[1] = 258
    /\ original_size = 70000
    /\ Len(data) = MaxLen
    /\ buf.err = "none"
    /\ buf.val.positions = positions

\* C2: the blob that Black_Hole_94's search returned, for a non-empty payload,
\* a chunk size >= 1 and any iteration budget, is restored by decompress_data
\* to exactly the payload.
C2_SearchRoundTrip ==
    (prog = "94" /\ pc = "Restored") => restored = Ok(input_data)

\* C2's case: a sampled candidate with the whole file as one reversed chunk and
\* a calculus value above one byte became the best, was written and restored.
C2_Witness ==
    /\ prog = "94"
    /\ pc = "Restored"
    /\ n_evaluated > 0
    /\ outfile = first_min
    /\ FromBigEndian(Slice(outfile.data, 4, 8)) = MaxFile
    /\ FromBigEndian(Slice(outfile.data, 8, 12)) = 258
    /\ FromBigEndian(Slice(outfile.data, 12, 14)) = 1
    /\ SliceFrom(outfile.data, 18) # input_data
    /\ Len(input_data) = MaxFile
    /\ restored = Ok(input_data)

\* C8: the iteration cap.  A find_best_iteration call with budget
\* max_iterations makes at most max_iterations passes, each evaluating one
\* sampled candidate (the baseline of Black_Hole_94 is not one), and
\* run_compression makes at most num_attempts such calls: a search with an
\* iteration budget of k = num_attempts * max_iterations evaluates at most k
\* sampled candidates before Done (Black_Hole_94, Black_Hole_82,
\* Black_Hole_86).
C8_IterationCap ==
    prog \in {"94", "82", "86"} =>
        /\ iteration <= args.max_iterations
        /\ attempt <= args.num_attempts
        /\ n_evaluated <= args.num_attempts * args.max_iterations
        /\ pc = "Searching" =>
               n_evaluated = (attempt * args.max_iterations) + iteration
        /\ (prog # "94" /\ pc = "Done") => attempt = args.num_attempts

\* C8's case: run_compression of Black_Hole_86 made all its attempts, each
\* of which evaluated as many candidates as its budget allows.
C8_Witness ==
    /\ prog = "86"
    /\ pc = "Done"
    /\ args.num_attempts = MaxAttempts
    /\ attempt = MaxAttempts
    /\ args.max_iterations = MaxIter
    /\ n_evaluated = MaxAttempts * MaxIter
    /\ outfile # None

\* The search call has returned to its caller.
SearchReturned ==
    \/ prog = "94" /\ pc \in {"Done", "Restored"}
    \/ prog \in {"82", "78", "86"} /\ pc = "Attempts"

\* C10: a search that has returned has a defined result: for every budget,
\* zero included, the blob it returns is not None (Black_Hole_94,
\* Black_Hole_82).
C10_DefinedResult ==
    (prog \in {"94", "82"} /\ SearchReturned) => best.data # None

\* C5: monotonic improvement.  Across the passes of one search the recorded
\* best-so-far size never increases: after every step of a running search it
\* is less than or equal to its value before the step (Black_Hole_94,
\* Black_Hole_71, Black_Hole_64).
C5_Monotonic ==
    [][pc = "Searching" => best'.size <= best.size]_vars

\* C5's case: a search of Black_Hole_71 improved down to the smallest size,
\* then ran out of its no-improvement budget on candidates that were not
\* smaller, and finished.
C5_Witness ==
    /\ prog = "71"
    /\ pc = "Done"
    /\ best.size = 1
    /\ args.max_no_improve = MaxNoImprove
    /\ consecutive_no_improvements = MaxNoImprove
    /\ first_min = best.data

\* C6: the tie-break.  A candidate replaces the best-so-far only when its
\* blob is strictly smaller, so of the candidates of equal length the one
\* evaluated earlier is retained: the best-so-far blob is always the earliest
\* of the smallest blobs evaluated (Black_Hole_94, Black_Hole_78,
\* Black_Hole_64).
C6_TieBreak ==
    (prog \in {"94", "78", "64"} /\ first_min # None) => best.data = first_min

\* C6 for the searches that evaluate one candidate per pass.
C6_TieBreakOnePerPass ==
    (prog \in {"94", "64"} /\ first_min # None) => best.data = first_min

\* C7 as claimed: every search call eventually reaches Done.
C7_Termination == <>(pc = "Done")

\* C7, amended: the search of Black_Hole_73.1 (budget: consecutive passes
\* without improvement) makes finitely many passes and reaches Done, with a
\* blob written exactly when the file is not empty, or, only on an empty file
\* with a budget above zero, ends with the exception of its first pass; the
\* search of Black_Hole_64 has no budget and never reaches Done.
C7_BudgetedTermination ==
    /\ (prog = "73.1") => <>(pc \in {"Done", "Raised"})
    /\ [](pc = "Raised" => (Len(input_data) = 0 /\ args.max_no_improve > 0))
    /\ []((pc = "Done" /\ args.max_no_improve > 0) => Len(input_data) > 0)
    /\ [](pc = "Done" => (outfile # None <=> Len(input_data) > 0))
    /\ [](prog = "64" => pc # "Done")

\* C7's case: a search of Black_Hole_73.1 found a blob, used up its budget
\* of passes without improvement and reached Done with the blob written.
C7_Witness ==
    /\ prog = "73.1"
    /\ pc = "Done"
    /\ args.max_no_improve = MaxNoImprove
    /\ consecutive_no_improvements = MaxNoImprove
    /\ best.size < Infinity
    /\ outfile # None

\* C4: when a search finishes, the blob it leaves in the compressed file is
\* that of the best-so-far candidate: its length is the smallest blob length
\* over the candidates the search evaluated (Black_Hole_58, Black_Hole_59).
C4_BestArtifact ==
    (prog \in {"58", "59"} /\ pc = "Done" /\ first_min # None) =>
        outfile.size = first_min.size

\* The number of candidates a pass of the while loop evaluates.
PassCandidates ==
    IF prog = "75" THEN 2
    ELSE Cardinality({k \in DOMAIN ChunkSizeRange(Len(input_data)) :
            MaxPositionsOf(Len(input_data),
                           ChunkSizeRange(Len(input_data))[k]) > 0})

\* C9 as claimed: the deadline is tested before each candidate evaluation, so
\* no evaluation is started once the deadline has passed.
C9_NoLateEvaluation ==
    prog \in {"58", "75"} => late_evals = 0

\* C9, amended: the deadline is tested once per pass of the while loop,
\* before the first candidate of the pass.  No pass begins once the deadline
\* has passed, and a pass that began before it evaluates all its candidates,
\* so at most the candidates of one pass but the first are started after the
\* deadline (Black_Hole_58: the chunk sizes of the for loop; Black_Hole_75:
\* the second strategy).
C9_PassGranularity ==
    prog \in {"58", "75"} =>
        /\ pending.active => pending.began < args.max_time
        /\ late_evals <= Max(PassCandidates, 1) - 1
        /\ (late_evals > 0 /\ ~pending.active) => ~WhileCondition

\* C9's case: the deadline passed while a pass of Black_Hole_58 was under
\* way, its second candidate was evaluated all the same, and the search
\* finished.
C9_Witness ==
    /\ prog = "58"
    /\ pc = "Done"
    /\ late_evals = 1
    /\ PassCandidates = 2
    /\ FromBigEndian(Slice(outfile.data, 8, 12)) = 128

\* The bound on the number of positions of a plan as the program configures
\* it: a tenth of the number of chunks in Black_Hole_58, 64 in the others.
ConfiguredMaximum ==
    IF prog = "58" THEN NumChunks(original_size, chunk_size) \div MAX_POSITIONS_DIVISOR
    ELSE MAX_POSITIONS

\* C11 as claimed: every plan the search samples has at most 64 positions,
\* for every file size and chunk size (Black_Hole_86, Black_Hole_58,
\* Black_Hole_59).
C11_PositionBound ==
    (prog \in {"86", "58", "59"} /\ stage = "sampled") =>
        Len(positions) <= MAX_POSITIONS

\* C11, amended: every plan the search samples has at most the number of
\* positions the program configures: 64 in Black_Hole_86 and Black_Hole_59,
\* a tenth of the number of chunks (rounded down) in Black_Hole_58, and never
\* more than the number of chunks.
C11_ConfiguredBound ==
    (prog \in {"86", "58", "59"} /\ stage = "sampled") =>
        /\ Len(positions) <= ConfiguredMaximum
        /\ Len(positions) <= NumChunks(original_size, chunk_size)

\* C11's case: Black_Hole_59 sampled a plan for a file of more than 64
\* chunks, and the plan has exactly 64 positions.
C11_Witness ==
    /\ prog = "59"
    /\ stage = "sampled"
    /\ NumChunks(original_size, chunk_size) > MAX_POSITIONS
    /\ Len(positions) = MAX_POSITIONS

\* C12: every plan the sampler emits is well-formed for the payload: its
\* chunk size is at least 1, its positions are pairwise distinct and every
\* position lies in [0, numChunks) (Black_Hole_82, Black_Hole_64,
\* Black_Hole_86).
C12_WellFormedSamples ==
    (prog \in {"82", "64", "86"} /\ stage = "sampled") =>
        /\ chunk_size >= 1
        /\ \A j, k \in DOMAIN positions : j # k => positions[j] # positions[k]
        /\ \A k \in DOMAIN positions :
               /\ 0 <= positions[k]
               /\ positions[k] < NumChunks(original_size, chunk_size)

\* C12 for the samplers that draw chunk indices with random.sample
\* (Black_Hole_82, Black_Hole_86).
C12_WellFormedRandomSamples ==
    (prog \in {"82", "86"} /\ stage = "sampled") =>
        /\ chunk_size >= 1
        /\ \A j, k \in DOMAIN positions : j # k => positions[j] # positions[k]
        /\ \A k \in DOMAIN positions :
               /\ 0 <= positions[k]
               /\ positions[k] < original_size \div chunk_size

\* The positions of the plan that lie in [0, numChunks).
PositionsInRange ==
    SelectSeq(positions,
              LAMBDA p : 0 <= p /\ p < NumChunks(Len(data), chunk_size))

\* A plan that apply must reject: chunkSize 0, or a position outside
\* [0, numChunks) (the empty payload counted as one chunk of padding).
InvalidPlan ==
    \/ chunk_size = 0
    \/ \E k \in DOMAIN positions :
           \/ positions[k] < 0
           \/ positions[k] >= Max(1, NumChunks(Len(data), chunk_size))

CutShort == Len(input_data) < HeaderLength + (4 * Len(positions))

C14_Accepted65 ==
    /\ op = "decode_86"
    /\ stage = "decoded"
    /\ Len(positions) = 65
    /\ buf.err = "none"
    /\ buf.val.positions = positions

\* C15: a failure of the entropy coder on one candidate discards only that
\* candidate and the search goes on: the search of a file that is not empty
\* never ends with an exception (Black_Hole_59, Black_Hole_71).
C15_SearchSurvivesCoderError ==
    (prog \in {"59", "71"} /\ Len(input_data) > 0) => pc # "Raised"

\* C15 for Black_Hole_59 alone.
C15_SearchSurvives59 ==
    prog = "59" => pc # "Raised"

\* C16: when a step of decompression fails, the call ends in an error and no
\* output file is written: the undecoded input is never written as the
\* restored payload (Black_Hole_93).
C16_NoFallback ==
    (prog = "93" /\ pc = "Done" /\ restored.err # "none") => outfile = None

\* C16 for the failure that handle_file_io itself handles: a missing input
\* file leaves no output file.
C16_NoOutputWithoutInput ==
    (prog = "93" /\ pc = "Done" /\ restored.err = "FileNotFoundError") =>
        outfile = None

\* The last chunk of the payload is shorter than chunkSize and is among the
\* reversed positions of a well-formed plan.
PaddedChunkReversed ==
    /\ WellFormedPlan
    /\ Len(data) % chunk_size # 0
    /\ \E k \in DOMAIN positions :
           positions[k] = NumChunks(Len(data), chunk_size) - 1

\* C17: when len(P) is not a multiple of chunkSize and the zero-padded last
\* chunk is among the reversed positions, the inverse transform of the padded
\* buffer followed by the truncation to the stored originalSize gives exactly
\* P (Black_Hole_1.5.2, Black_Hole_71).
C17_PaddedRoundTrip ==
    (op = "roundtrip" /\ prog \in {"1.5.2", "71"} /\ PaddedChunkReversed) =>
        /\ buf.err = "none"
        /\ stage = "applied" =>
               Len(buf.val) = NumChunks(Len(data), chunk_size) * chunk_size
        /\ stage = "decoded" =>
               /\ buf.val.restored = data
               /\ buf.val.original_size = Len(data)

\* C17's case: a payload of three bytes in chunks of two, the padded second
\* chunk reversed, went through Black_Hole_1.5.2 and came back.
C17_Witness ==
    /\ op = "roundtrip"
    /\ prog = "1.5.2"
    /\ stage = "decoded"
    /\ PaddedChunkReversed
    /\ Len(data) = 3
    /\ chunk_size = 2
    /\ data[3] # 0
    /\ buf.val.stored # data \o <<0>>
    /\ buf.val.restored = data

\* A plan of the search of Black_Hole_1.5.1: chunk_size in 1 .. file_size,
\* num_chunks in 1 .. file_size // chunk_size.
SearchedPlan151 ==
    /\ chunk_size >= 1
    /\ chunk_size <= Len(data)
    /\ Len(positions) >= 1
    /\ Len(positions) <= Len(data) \div chunk_size

\* C18: on decode the chunk boundaries of the inverse transform are those of
\* apply at encode time, for every N and chunkSize, N not a multiple of
\* chunkSize included: the decoder works with the chunk size of the plan and
\* ceil(N / chunkSize) chunks, and restores the payload (Black_Hole_1.5.1,
\* Black_Hole_1.5.2).
C18_SameBoundaries ==
    (op = "roundtrip" /\ stage = "decoded"
        /\ \/ prog = "1.5.1" /\ SearchedPlan151
           \/ prog = "1.5.2" /\ WellFormedPlan /\ data # <<>>) =>
        /\ buf.err = "none"
        /\ buf.val.chunk_size = chunk_size
        /\ CeilDiv(Len(buf.val.stored), buf.val.chunk_size)
               = NumChunks(Len(data), chunk_size)
        /\ buf.val.restored = data

\* C18 for Black_Hole_1.5.2 alone, which stores the chunk size and pads the
\* last chunk.
C18_SameBoundaries152 ==
    (op = "roundtrip" /\ stage = "decoded" /\ prog = "1.5.2"
        /\ WellFormedPlan /\ data # <<>>) =>
        /\ buf.err = "none"
        /\ buf.val.chunk_size = chunk_size
        /\ Len(buf.val.stored) \div buf.val.chunk_size
               = NumChunks(Len(data), chunk_size)
        /\ buf.val.restored = data

\* A round trip of Black_Hole_1.5.1 that restored other bytes than the
\* payload: three bytes in chunks of two, the first chunk reversed, decoded
\* as one chunk of three.
C18_Misrestored ==
    /\ op = "roundtrip"
    /\ prog = "1.5.1"
    /\ stage = "decoded"
    /\ data = <<1, 255, 0>>
    /\ chunk_size = 2
    /\ Len(positions) = 1
    /\ buf.err = "none"
    /\ buf.val.chunk_size = 3
    /\ buf.val.restored = <<0, 1, 255>>

\* C19: Scenario A.  For the empty payload compress followed by decompress
\* succeeds without error: the search of an empty file does not end with an
\* exception (Black_Hole_94, Black_Hole_82).
C19_EmptySearch ==
    (prog \in {"94", "82"} /\ Len(input_data) = 0) => pc # "Raised"

\* C19 for the transform: the empty payload is one chunk of padding zeros,
\* and the round trip gives the empty payload back (Black_Hole_1.5.2).
C19_EmptyTransform ==
    (op = "roundtrip" /\ prog = "1.5.2" /\ data = <<>> /\ chunk_size >= 1) =>
        /\ buf.err = "none"
        /\ stage = "applied" => buf.val = Zeros(chunk_size)
        /\ stage = "decoded" => buf.val.restored = <<>>

\* The plan and payload of Scenario B: one byte, chunkSize 4, positions [0]
\* (Black_Hole_94: calculus value 0).
ScenarioB ==
    /\ op = "roundtrip"
    /\ prog \in {"71", "94"}
    /\ Len(data) = 1
    /\ chunk_size = 4
    /\ positions = <<0>>
    /\ calculus_value = 0

LaidOut(w) ==
    LET a == w.magic
        b == a + w.original_size
        c == b + w.chunk_size
        d == c + w.count
        e == d + (w.position * Len(positions))
    IN /\ Len(buf.val) = e + Len(data)
       /\ FromBigEndian(Slice(buf.val, a, b)) = original_size
       /\ FromBigEndian(Slice(buf.val, b, c)) = chunk_size
       /\ FromBigEndian(Slice(buf.val, c, d)) = Len(positions)
       /\ \A k \in DOMAIN positions :
              FromBigEndian(Slice(buf.val, d + (w.position * (k - 1)),
                                  d + (w.position * k))) = positions[k]
       /\ SliceFrom(buf.val, e) = data

\* The layout of the specification: MAGIC(2) | originalSize(8) |
\* chunkSize(4) | positionCount(2) | positions(4 each) | payload.
SpecifiedWidths ==
    [magic |-> 2, original_size |-> 8, chunk_size |-> 4, count |-> 2,
     position |-> 4]

\* Every field of the plan fits the width the program packs it in.
FieldsFit ==
    CASE prog = "1.5.4" ->
            \A k \in DOMAIN positions : positions[k] < PositionLimit154
      [] prog = "1.5.2" ->
            /\ chunk_size <= 65535
            /\ \A k \in DOMAIN positions : positions[k] <= 65535
      [] OTHER -> TRUE

C21_Refused152 ==
    /\ op = "layout"
    /\ prog = "1.5.2"
    /\ stage = "encoded"
    /\ chunk_size = 1
    /\ positions = <<65536>>
    /\ buf.err = "struct.error"

\* The chunk index of the byte at offset i (from 0).
ChunkOf(i) == i \div chunk_size

\* Chunk k is listed in positions.
Listed(k) == \E j \in DOMAIN positions : positions[j] = k

\* How many bytes of the chunk k of s have the value v.
CountIn(s, k, v) ==
    Cardinality({i \in DOMAIN s : ChunkOf(i - 1) = k /\ s[i] = v})

\* C23: the frame of apply.  After reverse_chunks of Black_Hole_94 or of
\* Black_Hole_90 on a payload with a chunk size >= 1, the output has the
\* payload's length, every byte of a chunk that positions does not list is
\* unchanged at its offset, and every listed chunk holds, within its own
\* offset range, the same bytes as before (permuted only within the chunk).
C23_Frame ==
    (op \in {"reverse_chunks_94", "reverse_chunks_90"} /\ stage = "applied"
        /\ chunk_size >= 1) =>
        /\ buf.err = "none"
        /\ Len(buf.val) = Len(data)
        /\ \A i \in DOMAIN data : ~Listed(ChunkOf(i - 1)) => buf.val[i] = data[i]
        /\ \A k \in 0..MaxLen : \A v \in ByteVals :
               CountIn(buf.val, k, v) = CountIn(data, k, v)

\* C23's case: a payload of three different bytes in two chunks, the first
\* listed and reversed, the second not listed.
C23_Witness ==
    /\ op = "reverse_chunks_90"
    /\ stage = "applied"
    /\ data = <<0, 1, 255>>
    /\ chunk_size = 2
    /\ positions = <<0>>
    /\ buf = Ok(<<1, 0, 255>>)

\* The number of zero bytes that fill the last chunk of the payload.
PaddingNeeded == (NumChunks(Len(data), chunk_size) * chunk_size) - Len(data)

\* The payload with its last chunk zero-padded, when the transformed bytes
\* have their listed chunks reversed back.
Unreversed(bytes) == Join(ReverseAt(ChunkList(bytes, chunk_size), positions))

C24_Unpadded82 ==
    /\ op = "reverse_chunks_at_positions_82"
    /\ stage = "applied"
    /\ data = <<1, 255, 1>>
    /\ chunk_size = 2
    /\ Len(buf.val) = Len(data)

\* The result the program holds between its attempts: the output file in
\* Black_Hole_94, best_of_30_compressed_data in Black_Hole_82.
KeptResult == IF prog = "94" THEN outfile ELSE best_of_all

\* C25: the best of several attempts.  Over the attempts of Black_Hole_94's
\* main and of Black_Hole_82's run_compression on one input: the result kept
\* is never replaced by a larger blob; when an attempt ends, the result kept
\* is no larger than the best blob of that attempt; and the output file at
\* the end is the result kept.  So the file left after the last attempt is
\* the smallest blob found across all attempts.
C25_BestOfAttempts ==
    [][/\ (KeptResult # None /\ KeptResult' # KeptResult) =>
              KeptResult'.size <= KeptResult.size
       /\ (attempt' = attempt + 1 /\ best.data # None) =>
              (KeptResult' # None /\ KeptResult'.size <= best.size)
       /\ (pc # "Done" /\ pc' = "Done") => outfile' = KeptResult']_vars

\* C25 for Black_Hole_82 alone.
C25_BestOfAttempts82 ==
    [][prog = "82" =>
        /\ (best_of_all # None /\ best_of_all' # best_of_all) =>
               best_of_all'.size < best_of_all.size
        /\ (attempt' = attempt + 1 /\ best.data # None) =>
               (best_of_all' # None /\ best_of_all'.size <= best.size)
        /\ (pc # "Done" /\ pc' = "Done") => outfile' = best_of_all']_vars

\* Black_Hole_94 ended with a file larger than the smallest blob its
\* attempts had found.
C25_Overwritten94 ==
    /\ prog = "94"
    /\ pc = "Done"
    /\ attempt = 2
    /\ first_min.size < outfile.size

\* Black_Hole_82 ended its second attempt with a best larger than that of
\* the first, and the file holds the smaller.
C25_Kept82 ==
    /\ prog = "82"
    /\ pc = "Done"
    /\ attempt = 2
    /\ best.data # None
    /\ outfile.size < best.size

\* The strategy byte of the container in the output file of Black_Hole_78.
StoredStrategy78 ==
    FromBigEndian(Slice(outfile.data, 9 + 4 * FromBigEndian(Slice(outfile.data, 8, 9)),
                        10 + 4 * FromBigEndian(Slice(outfile.data, 8, 9))))

\* C26: every blob that run_compression of Black_Hole_78 wrote, of strategy
\* 1 or of strategy 2, is restored by decompress_and_restore_paq to exactly
\* the bytes of the original file.
C26_RestoresBothStrategies ==
    (prog = "78" /\ pc = "Restored") => restored = Ok(input_data)

\* C26 for the blobs of strategy 1 alone.
C26_RestoresStrategy1 ==
    (prog = "78" /\ pc = "Restored" /\ StoredStrategy78 = 1) =>
        restored = Ok(input_data)

\* A blob of strategy 2 was the best, was written, and was restored as
\* something other than the file.
C26_Misrestored ==
    /\ prog = "78"
    /\ pc = "Restored"
    /\ StoredStrategy78 = 2
    /\ Len(input_data) = MaxFile
    /\ restored.err = "none"
    /\ restored.val # input_data

\* C27: in Black_Hole_93, decompress_data applied to the blob that
\* compress_with_iterations returned yields exactly the original input bytes,
\* for every input and every budget of attempts and iterations, also when a
\* transformed candidate became the best.
C27_IterationsRoundTrip ==
    (prog = "93" /\ pc = "Restored") => restored = Ok(input_data)

\* The blob returned is the baseline of the untransformed file, and it is
\* restored to the file.
C27_BaselineRestored ==
    /\ prog = "93"
    /\ pc = "Restored"
    /\ n_evaluated > 0
    /\ outfile.data = input_data
    /\ restored = Ok(input_data)

\* A transformed candidate became the best, and decompress_data returns the
\* transformed bytes, longer than the file.
C27_TransformedReturned ==
    /\ prog = "93"
    /\ pc = "Restored"
    /\ outfile.data # input_data
    /\ restored = Ok(outfile.data)
    /\ Len(restored.val) > Len(input_data)

\* C28: in Black_Hole_90 the bytes that decompress mode hands to the entropy
\* decoder are exactly the bytes the entropy coder produced in compress mode,
\* so that decompressing the compressed file restores the file.
C28_DecoderInput ==
    (prog = "90" /\ pc \in {"Restored", "Raised"})
        => (buf = Ok(data) /\ restored = Ok(input_data))

\* The decoder is handed the coder's bytes with the last byte XOR 0xFF.
C28_LastByteFlipped ==
    /\ prog = "90"
    /\ pc \in {"Restored", "Raised"}
    /\ Len(buf.val) = Len(data)
    /\ \A k \in 1..Len(data) :
        buf.val[k] = IF k = Len(data) THEN Xor8(data[k], 255) ELSE data[k]

\* C29: in Black_Hole_70, decompress_and_restore_paq restores exactly the
\* original bytes of every non-empty input, for every num_reversals and
\* num_sets the search draws and every set of positions the decoder draws
\* anew: the chunk size stored and used is 1, and a reversed 1-byte chunk is
\* the chunk.
C29_RestoresWithFreshPositions ==
    (prog = "70" /\ pc = "Restored") => restored = Ok(input_data)

\* A file of several bytes, compressed with two rounds of reversals over more
\* than one chunk each, has been extracted.
C29_Witness ==
    /\ prog = "70"
    /\ pc = "Restored"
    /\ Len(input_data) > 2
    /\ decompress_and_restore_paq_70_header(outfile.data).val.num_reversals = 2
    /\ decompress_and_restore_paq_70_header(outfile.data).val.num_sets = 2
    /\ restored = Ok(input_data)

\* C30: in Black_Hole_55.2, decompress_data(compress_data(s), len(s)) equals s
\* for every bit string s, with blocks coded by a 5-bit code, blocks behind
\* the escape 11111 and a trailing block shorter than 25 bits.
C30_BitCodecRoundTrip ==
    (op = "bits_55.2" /\ stage = "decoded") => restored = Ok(data)

\* A string of a coded block, an escaped block and a trailing short block has
\* been compressed and decompressed.
C30_Witness ==
    /\ op = "bits_55.2"
    /\ stage = "decoded"
    /\ Len(data) > 2 * BlockBits
    /\ Len(data) % BlockBits # 0
    /\ Len(compress_block(SubSeq(data, 1, BlockBits))) = 5
    /\ Len(compress_block(SubSeq(data, BlockBits + 1, 2 * BlockBits))) > BlockBits
    /\ restored = Ok(data)

====
